---------------------------- MODULE Spec2Model ----------------------------
(***************************************************************************)
(* A model of src/src/sound.rs: the Game Boy APU (struct Sound), its four  *)
(* channels (SquareChannel x2, WaveChannel, NoiseChannel), the embedded    *)
(* VolumeEnvelope and the frame sequencer in Sound::run.                    *)
(*                                                                         *)
(* The program state is held in one variable per field of struct Sound.    *)
(* The operations rb, wb and do_cycle are the three actions.  Everything   *)
(* they call (run, do_output, the channels' wb, run and step) is a pure    *)
(* operator over records that mirror the structs.                          *)
(***************************************************************************)
EXTENDS Integers, Sequences, FiniteSets

VARIABLES
    on,             \* Sound.on
    registerdata,   \* Sound.registerdata : [0..22 -> byte]
    time,           \* Sound.time
    prev_time,      \* Sound.prev_time
    next_time,      \* Sound.next_time
    time_divider,   \* Sound.time_divider
    channel1,       \* Sound.channel1 : SquareChannel (with sweep)
    channel2,       \* Sound.channel2 : SquareChannel
    channel3,       \* Sound.channel3 : WaveChannel
    channel4,       \* Sound.channel4 : NoiseChannel
    volume_left,    \* Sound.volume_left
    volume_right,   \* Sound.volume_right
    \* ---- observation variables (not program state) ----
    op,             \* the last call made by the CPU and what it returned
                    \* (for a read, v is the byte an accepted write to the
                    \* same address stored in the call before it, or -1)
    ticklog,        \* times of the sequencer ticks applied by the last call
    runlog,         \* per channel: the channel.run calls made by the last call
    abstime,        \* cycles accumulated by do_cycle since construction
    written,        \* per register address: last byte accepted while on, or -1
    lastw,          \* per channel: snapshot taken at the last accepted write
    lenTicks,       \* per channel: length ticks since the last accepted write
    envTicks,       \* per channel: envelope ticks since the last accepted write
    lastsil,        \* per channel: was the latest channel.run call before the
                    \* last CPU call made with length_enabled and length == 0
    focus,          \* the channel the counters above are kept for (0: none)
    steplog,        \* what the sequencer did during the last call, in order
    nticks,         \* sequencer ticks applied since construction
    swept,          \* has step_sweep taken its overflow branch so far
    shifts,         \* noise LFSR shifts since the last NR44 trigger: how
                    \* many, and the latest 15 output bits (newest lowest)
    mix,            \* what the last call handed to the audio sink
    emitted,        \* per channel: the sum of the deltas added to its buffer
                    \* since construction, and whether one of them was 0
    call            \* the call in progress when Sound::run is followed one
                    \* loop iteration at a time (pc "idle": none)

apu == <<on, registerdata, time, prev_time, next_time, time_divider,
         channel1, channel2, channel3, channel4, volume_left, volume_right>>

vars == <<on, registerdata, time, prev_time, next_time, time_divider,
          channel1, channel2, channel3, channel4, volume_left, volume_right,
          op, ticklog, runlog, abstime, written, lastw, lenTicks, envTicks,
          lastsil, focus, steplog, nticks, swept, shifts, mix, emitted,
          call>>

---------------------------------------------------------------------------
(* Program constants *)

CLOCKS_PER_SECOND == 4194304
OUTPUT_SAMPLE_COUNT == 2000
\* voice.format().samples_rate.0 of the opened audio device
SamplesRate == 44100
\* CLOCKS_PER_SECOND / 256, the frame-sequencer period
TickPeriod == CLOCKS_PER_SECOND \div 256

WAVE_PATTERN ==
    << <<-1,-1,-1,-1, 1,-1,-1,-1>>,
       <<-1,-1,-1,-1, 1, 1,-1,-1>>,
       <<-1,-1, 1, 1, 1, 1,-1,-1>>,
       << 1, 1, 1, 1,-1,-1, 1, 1>> >>

---------------------------------------------------------------------------
(* Fixed-width integer helpers.  The u32 time values (time, next_time, the *)
(* channels' delay and period) are kept as plain integers: the model keeps *)
(* them far below 2^32, so a u32 sum never wraps, and a subtraction that   *)
(* would underflow shows up as a negative number.                          *)

Pow2(n) == 2 ^ n
U8(x)  == x % 256
U16(x) == x % 65536
Shr(x, n) == x \div Pow2(n)
Bit(x, n) == (x \div Pow2(n)) % 2
Min(a, b) == IF a < b THEN a ELSE b

---------------------------------------------------------------------------
(* VolumeEnvelope *)

VolumeEnvelope_new ==
    [period |-> 0, goes_up |-> FALSE, delay |-> 0,
     initial_volume |-> 0, volume |-> 0]

VolumeEnvelope_wb(e, a, v) ==
    IF a \in {\hFF12, \hFF17, \hFF21}
    THEN [e EXCEPT !.period = v % 8,
                   !.goes_up = (Bit(v, 3) = 1),
                   !.initial_volume = Shr(v, 4),
                   !.volume = Shr(v, 4)]
    ELSE IF a \in {\hFF14, \hFF19, \hFF23} /\ Bit(v, 7) = 1
    THEN [e EXCEPT !.delay = e.period,
                   !.volume = e.initial_volume]
    ELSE e

VolumeEnvelope_step_wrap(e) ==
    IF e.delay > 1 THEN [e EXCEPT !.delay = e.delay - 1]
    ELSE IF e.delay = 1
    THEN IF e.goes_up
         THEN [e EXCEPT !.delay = e.period, !.volume = (e.volume + 1) % 16]
         ELSE IF e.volume > 0
         THEN [e EXCEPT !.delay = e.period, !.volume = e.volume - 1]
         ELSE [e EXCEPT !.delay = e.period]
    ELSE e

VolumeEnvelope_step(e) ==
    IF e.delay > 1 THEN [e EXCEPT !.delay = e.delay - 1]
    ELSE IF e.delay = 1
    THEN IF e.goes_up /\ e.volume < 15
         THEN [e EXCEPT !.delay = e.period, !.volume = e.volume + 1]
         ELSE IF ~e.goes_up /\ e.volume > 0
         THEN [e EXCEPT !.delay = e.period, !.volume = e.volume - 1]
         ELSE [e EXCEPT !.delay = e.period]
    ELSE e

---------------------------------------------------------------------------
(* SquareChannel *)

SquareChannel_new(with_sweep) ==
    [enabled |-> FALSE, duty |-> 1, phase |-> 1, length |-> 0,
     new_length |-> 0, length_enabled |-> FALSE, frequency |-> 0,
     period |-> 2048, last_amp |-> 0, delay |-> 0,
     has_sweep |-> with_sweep, sweep_frequency |-> 0, sweep_delay |-> 0,
     sweep_period |-> 0, sweep_shift |-> 0, sweep_by_adding |-> FALSE,
     volume_envelope |-> VolumeEnvelope_new]

SquareChannel_on(c) ==
    c.enabled /\ (~c.length_enabled \/ c.length # 0)

SquareChannel_calculate_period(c) ==
    IF c.frequency > 2048 THEN [c EXCEPT !.period = 0]
    ELSE [c EXCEPT !.period = (2048 - c.frequency) * 4]

SquareChannel_step_length_unguarded(c) ==
    IF c.length_enabled
    THEN [c EXCEPT !.length = U8(c.length - 1)]
    ELSE c

SquareChannel_step_length(c) ==
    IF c.length_enabled /\ c.length # 0
    THEN [c EXCEPT !.length = c.length - 1]
    ELSE c

SquareChannel_step_sweep_unclamped(c) ==
    IF ~c.has_sweep \/ c.sweep_period = 0 THEN c
    ELSE IF c.sweep_delay > 1
    THEN [c EXCEPT !.sweep_delay = c.sweep_delay - 1]
    ELSE LET c1 == SquareChannel_calculate_period(
                       [c EXCEPT !.sweep_delay = c.sweep_period,
                                 !.frequency = c.sweep_frequency])
             offset == Shr(c1.sweep_frequency, c1.sweep_shift)
         IN  IF c1.sweep_by_adding
             THEN [c1 EXCEPT !.sweep_frequency = c1.sweep_frequency + offset]
             ELSE IF c1.sweep_frequency <= offset
                  THEN [c1 EXCEPT !.sweep_frequency = 0]
                  ELSE [c1 EXCEPT !.sweep_frequency =
                                      c1.sweep_frequency - offset]

SquareChannel_step_sweep(c) ==
    IF ~c.has_sweep \/ c.sweep_period = 0 THEN c
    ELSE IF c.sweep_delay > 1
    THEN [c EXCEPT !.sweep_delay = c.sweep_delay - 1]
    ELSE LET c1 == SquareChannel_calculate_period(
                       [c EXCEPT !.sweep_delay = c.sweep_period,
                                 !.frequency = c.sweep_frequency])
             offset == Shr(c1.sweep_frequency, c1.sweep_shift)
         IN  IF c1.sweep_by_adding
             THEN IF c1.sweep_frequency >= 2048 - offset
                  THEN [c1 EXCEPT !.sweep_delay = 0,
                                  !.sweep_frequency = 2048]
                  ELSE [c1 EXCEPT !.sweep_frequency =
                                      c1.sweep_frequency + offset]
             ELSE IF c1.sweep_frequency <= offset
                  THEN [c1 EXCEPT !.sweep_frequency = 0]
                  ELSE [c1 EXCEPT !.sweep_frequency =
                                      c1.sweep_frequency - offset]

\* whether a call of step_sweep in this state takes the overflow branch
SquareChannel_sweep_overflows(c) ==
    /\ c.has_sweep /\ c.sweep_period # 0
    /\ ~(c.sweep_delay > 1)
    /\ c.sweep_by_adding
    /\ c.sweep_frequency >= 2048 - Shr(c.sweep_frequency, c.sweep_shift)

\* whether a trigger performs a sweep step at once
SquareChannel_trigger_sweeps(c) ==
    c.has_sweep /\ c.sweep_period > 0 /\ c.sweep_shift > 0

\* what a trigger assigns before it calls step_sweep
SquareChannel_trigger_arm(c) ==
    [c EXCEPT !.enabled = TRUE,
              !.length = c.new_length,
              !.sweep_frequency = c.frequency,
              !.sweep_delay = IF SquareChannel_trigger_sweeps(c)
                              THEN 1 ELSE c.sweep_delay]

\* the trigger part of an NR14/NR24 write (v & 0x80 == 0x80)
SquareChannel_trigger(c) ==
    IF SquareChannel_trigger_sweeps(c)
    THEN SquareChannel_step_sweep(SquareChannel_trigger_arm(c))
    ELSE SquareChannel_trigger_arm(c)

\* the part of an NR14/NR24 write that comes before the trigger
SquareChannel_wb_NRx4(c, v) ==
    [SquareChannel_calculate_period(
         [c EXCEPT !.frequency = (c.frequency % 256) + (v % 8) * 256])
       EXCEPT !.length_enabled = (Bit(v, 6) = 1)]

\* whether this write to the channel takes step_sweep into its overflow branch
SquareChannel_wb_overflows(c, a, v) ==
    /\ a = \hFF14 /\ Bit(v, 7) = 1
    /\ SquareChannel_trigger_sweeps(SquareChannel_wb_NRx4(c, v))
    /\ SquareChannel_sweep_overflows(
           SquareChannel_trigger_arm(SquareChannel_wb_NRx4(c, v)))

SquareChannel_wb(c, a, v) ==
    LET c1 ==
          IF a = \hFF10 /\ c.has_sweep
          THEN [c EXCEPT !.sweep_period = Shr(v, 4) % 8,
                         !.sweep_shift = v % 8,
                         !.sweep_by_adding = (Bit(v, 3) = 1)]
          ELSE IF a \in {\hFF11, \hFF16}
          THEN [c EXCEPT !.duty = Shr(v, 6),
                         !.new_length = 64 - (v % 64)]
          ELSE IF a \in {\hFF13, \hFF18}
          THEN SquareChannel_calculate_period(
                   [c EXCEPT !.frequency = (Shr(c.frequency, 8) % 8) * 256 + v,
                             !.length = c.new_length])
          ELSE IF a \in {\hFF14, \hFF19}
          THEN IF Bit(v, 7) = 1
               THEN SquareChannel_trigger(SquareChannel_wb_NRx4(c, v))
               ELSE SquareChannel_wb_NRx4(c, v)
          ELSE c
    IN  [c1 EXCEPT !.volume_envelope = VolumeEnvelope_wb(c1.volume_envelope, a, v)]

\* the silent branch shared by the three channel types:
\* flush the residual amplitude at start_time
Channel_silence_keep(c, start_time) ==
    IF c.last_amp # 0
    THEN [ch |-> [c EXCEPT !.delay = 0],
          deltas |-> << <<start_time, -c.last_amp>> >>, silent |-> TRUE]
    ELSE [ch |-> c, deltas |-> << >>, silent |-> TRUE]

Channel_silence(c, start_time) ==
    IF c.last_amp # 0
    THEN [ch |-> [c EXCEPT !.last_amp = 0, !.delay = 0],
          deltas |-> << <<start_time, -c.last_amp>> >>, silent |-> TRUE]
    ELSE [ch |-> c, deltas |-> << >>, silent |-> TRUE]

\* the while loop of SquareChannel::run; t is the local cursor `time`
RECURSIVE SquareChannel_run_loop_nodelay(_, _, _, _)
SquareChannel_run_loop_nodelay(c, t, end_time, deltas) ==
    IF t < end_time
    THEN LET amp == c.volume_envelope.volume
                      * WAVE_PATTERN[c.duty + 1][c.phase + 1]
         IN  IF amp # c.last_amp
             THEN SquareChannel_run_loop_nodelay(
                      [c EXCEPT !.last_amp = amp, !.phase = (c.phase + 1) % 8],
                      (t + c.period), end_time,
                      Append(deltas, <<t, amp - c.last_amp>>))
             ELSE SquareChannel_run_loop_nodelay(
                      [c EXCEPT !.phase = (c.phase + 1) % 8],
                      (t + c.period), end_time, deltas)
    ELSE [ch |-> [c EXCEPT !.delay = 0],
          deltas |-> deltas, silent |-> FALSE]

RECURSIVE SquareChannel_run_loop(_, _, _, _)
SquareChannel_run_loop(c, t, end_time, deltas) ==
    IF t < end_time
    THEN LET amp == c.volume_envelope.volume
                      * WAVE_PATTERN[c.duty + 1][c.phase + 1]
         IN  IF amp # c.last_amp
             THEN SquareChannel_run_loop(
                      [c EXCEPT !.last_amp = amp, !.phase = (c.phase + 1) % 8],
                      (t + c.period), end_time,
                      Append(deltas, <<t, amp - c.last_amp>>))
             ELSE SquareChannel_run_loop(
                      [c EXCEPT !.phase = (c.phase + 1) % 8],
                      (t + c.period), end_time, deltas)
    ELSE [ch |-> [c EXCEPT !.delay = t - end_time],
          deltas |-> deltas, silent |-> FALSE]

SquareChannel_run(c, start_time, end_time) ==
    IF ~c.enabled \/ (c.length = 0 /\ c.length_enabled) \/ c.period = 0
    THEN Channel_silence(c, start_time)
    ELSE SquareChannel_run_loop(c, (start_time + c.delay), end_time, << >>)

---------------------------------------------------------------------------
(* WaveChannel *)

WaveChannel_new ==
    [enabled |-> FALSE, enabled_flag |-> FALSE, length |-> 0,
     new_length |-> 0, length_enabled |-> FALSE, frequency |-> 0,
     period |-> 2048, last_amp |-> 0, delay |-> 0, volume_shift |-> 0,
     waveram |-> [i \in 0..31 |-> 0], current_wave |-> 0]

WaveChannel_on(c) ==
    c.enabled /\ (~c.length_enabled \/ c.length # 0)

WaveChannel_calculate_period(c) ==
    IF c.frequency > 2048 THEN [c EXCEPT !.period = 0]
    ELSE [c EXCEPT !.period = (2048 - c.frequency) * 2]

WaveChannel_step_length_stuck(c) ==
    IF c.length_enabled /\ c.length > 1
    THEN [c EXCEPT !.length = c.length - 1]
    ELSE c

WaveChannel_step_length(c) ==
    IF c.length_enabled /\ c.length # 0
    THEN [c EXCEPT !.length = c.length - 1]
    ELSE c

\* the index (a as usize - 0xFF30) / 2 used by WaveChannel::wb and Sound::rb
WaveRamIndex(a) == (a - \hFF30) \div 2

\* NR30 (0xFF1A): the DAC enable
WaveChannel_wb_NR30_keep(c, v) ==
    IF Bit(v, 7) = 1
    THEN [c EXCEPT !.enabled_flag = TRUE]
    ELSE [c EXCEPT !.enabled_flag = FALSE]

WaveChannel_wb_NR30(c, v) ==
    IF Bit(v, 7) = 1
    THEN [c EXCEPT !.enabled_flag = TRUE]
    ELSE [c EXCEPT !.enabled_flag = FALSE, !.enabled = FALSE]

\* NR34 (0xFF1E): frequency high bits, length enable, trigger
WaveChannel_wb_NR34(c, v) ==
    LET c1 == WaveChannel_calculate_period(
                  [c EXCEPT !.frequency = (c.frequency % 256) + (v % 8) * 256])
        c2 == [c1 EXCEPT !.length_enabled = (Bit(v, 6) = 1)]
    IN  IF Bit(v, 7) = 1 /\ c2.enabled_flag
        THEN [c2 EXCEPT !.length = c2.new_length,
                        !.enabled = TRUE,
                        !.current_wave = 0]
        ELSE c2

\* 0xFF30 ... 0xFF3F: the two nibbles of one wave RAM byte
WaveChannel_wb_ram_swapped(c, a, v) ==
    [c EXCEPT !.waveram =
        [[c.waveram EXCEPT ![WaveRamIndex(a)] = v % 16]
            EXCEPT ![WaveRamIndex(a) + 1] = Shr(v, 4)]]

WaveChannel_wb_ram(c, a, v) ==
    [c EXCEPT !.waveram =
        [[c.waveram EXCEPT ![WaveRamIndex(a)] = Shr(v, 4)]
            EXCEPT ![WaveRamIndex(a) + 1] = v % 16]]

WaveChannel_wb(c, a, v) ==
    IF a = \hFF1A THEN WaveChannel_wb_NR30(c, v)
    ELSE IF a = \hFF1B THEN [c EXCEPT !.new_length = 256 - v]
    ELSE IF a = \hFF1C THEN [c EXCEPT !.volume_shift = Shr(v, 5)]
    ELSE IF a = \hFF1D
    THEN WaveChannel_calculate_period(
             [c EXCEPT !.frequency = Shr(c.frequency, 8) * 256 + v])
    ELSE IF a = \hFF1E THEN WaveChannel_wb_NR34(c, v)
    ELSE IF a \in \hFF30..\hFF3F THEN WaveChannel_wb_ram(c, a, v)
    ELSE c

\* the while loop of WaveChannel::run; t is the local cursor `time`
RECURSIVE WaveChannel_run_loop_level(_, _, _, _)
WaveChannel_run_loop_level(c, t, end_time, deltas) ==
    IF t < end_time
    THEN LET sample == c.waveram[c.current_wave]
             amp == IF c.volume_shift \in 1..3
                    THEN Shr(sample, c.volume_shift - 1)
                    ELSE 0
         IN  IF amp # c.last_amp
             THEN WaveChannel_run_loop_level(
                      [c EXCEPT !.last_amp = amp,
                                !.current_wave = (c.current_wave + 1) % 32],
                      (t + c.period), end_time,
                      Append(deltas, <<t, amp>>))
             ELSE WaveChannel_run_loop_level(
                      [c EXCEPT !.current_wave = (c.current_wave + 1) % 32],
                      (t + c.period), end_time, deltas)
    ELSE [ch |-> [c EXCEPT !.delay = t - end_time],
          deltas |-> deltas, silent |-> FALSE]

RECURSIVE WaveChannel_run_loop(_, _, _, _)
WaveChannel_run_loop(c, t, end_time, deltas) ==
    IF t < end_time
    THEN LET sample == c.waveram[c.current_wave]
             amp == IF c.volume_shift \in 1..3
                    THEN Shr(sample, c.volume_shift - 1)
                    ELSE 0
         IN  IF amp # c.last_amp
             THEN WaveChannel_run_loop(
                      [c EXCEPT !.last_amp = amp,
                                !.current_wave = (c.current_wave + 1) % 32],
                      (t + c.period), end_time,
                      Append(deltas, <<t, amp - c.last_amp>>))
             ELSE WaveChannel_run_loop(
                      [c EXCEPT !.current_wave = (c.current_wave + 1) % 32],
                      (t + c.period), end_time, deltas)
    ELSE [ch |-> [c EXCEPT !.delay = t - end_time],
          deltas |-> deltas, silent |-> FALSE]

WaveChannel_run(c, start_time, end_time) ==
    IF ~c.enabled \/ (c.length = 0 /\ c.length_enabled) \/ c.period = 0
    THEN Channel_silence(c, start_time)
    ELSE WaveChannel_run_loop(c, (start_time + c.delay), end_time, << >>)

---------------------------------------------------------------------------
(* NoiseChannel *)

NoiseChannel_new ==
    [enabled |-> FALSE, length |-> 0, new_length |-> 0,
     length_enabled |-> FALSE, volume_envelope |-> VolumeEnvelope_new,
     period |-> 2048, shift_width |-> 14, state |-> 1, delay |-> 0,
     last_amp |-> 0]

NoiseChannel_on(c) ==
    c.enabled /\ (~c.length_enabled \/ c.length # 0)

NoiseChannel_step_length(c) ==
    IF c.length_enabled /\ c.length # 0
    THEN [c EXCEPT !.length = c.length - 1]
    ELSE c

NoiseChannel_wb(c, a, v) ==
    LET c1 ==
          IF a = \hFF20 THEN [c EXCEPT !.new_length = 64 - (v % 64)]
          ELSE IF a = \hFF21 THEN c
          ELSE IF a = \hFF22
          THEN LET freq_div == IF v % 8 = 0 THEN 8 ELSE ((v % 8) + 1) * 16
               IN  [c EXCEPT !.shift_width = IF Bit(v, 3) = 1 THEN 6 ELSE 14,
                             !.period = (freq_div * Pow2(Shr(v, 4)))]
          ELSE IF a = \hFF23 /\ Bit(v, 7) = 1
          THEN [c EXCEPT !.enabled = TRUE,
                         !.length = c.new_length,
                         !.state = \hFF,
                         !.delay = 0]
          ELSE c
    IN  [c1 EXCEPT !.volume_envelope = VolumeEnvelope_wb(c1.volume_envelope, a, v)]

\* one shift of the LFSR: state <<= 1, then the feedback bit is or-ed in
NoiseChannel_shift_nofeedback(oldstate, shift_width) ==
    U16(oldstate * 2)

NoiseChannel_shift(oldstate, shift_width) ==
    U16(oldstate * 2)
      + ((Bit(oldstate, shift_width)
            + Bit(U16(oldstate * 2), shift_width)) % 2)

\* the while loop of NoiseChannel::run; t is the local cursor `time`
RECURSIVE NoiseChannel_run_loop(_, _, _, _)
NoiseChannel_run_loop(c, t, end_time, deltas) ==
    IF t < end_time
    THEN LET oldstate == c.state
             newstate == NoiseChannel_shift(oldstate, c.shift_width)
             amp == IF Bit(oldstate, c.shift_width) = 0
                    THEN -c.volume_envelope.volume
                    ELSE c.volume_envelope.volume
         IN  IF c.last_amp # amp
             THEN NoiseChannel_run_loop(
                      [c EXCEPT !.state = newstate, !.last_amp = amp],
                      (t + c.period), end_time,
                      Append(deltas, <<t, amp - c.last_amp>>))
             ELSE NoiseChannel_run_loop(
                      [c EXCEPT !.state = newstate],
                      (t + c.period), end_time, deltas)
    ELSE [ch |-> [c EXCEPT !.delay = t - end_time],
          deltas |-> deltas, silent |-> FALSE]

NoiseChannel_run(c, start_time, end_time) ==
    IF ~c.enabled \/ (c.length_enabled /\ c.length = 0)
         \/ c.volume_envelope.volume = 0
    THEN Channel_silence(c, start_time)
    ELSE NoiseChannel_run_loop(c, (start_time + c.delay), end_time, << >>)

\* the output bits of the shifts one run call makes: bit shift_width of
\* the state before each shift, in order
RECURSIVE NoiseChannel_run_bits(_, _, _, _)
NoiseChannel_run_bits(c, t, end_time, bits) ==
    IF t < end_time
    THEN NoiseChannel_run_bits(
             [c EXCEPT !.state = NoiseChannel_shift(c.state, c.shift_width)],
             (t + c.period), end_time,
             Append(bits, Bit(c.state, c.shift_width)))
    ELSE bits

NoiseChannel_bits(c, start_time, end_time) ==
    IF ~c.enabled \/ (c.length_enabled /\ c.length = 0)
         \/ c.volume_envelope.volume = 0
    THEN << >>
    ELSE NoiseChannel_run_bits(c, (start_time + c.delay), end_time, << >>)

---------------------------------------------------------------------------
(* Sound: the APU top level *)

\* output_period as computed in Sound::new
\* (OUTPUT_SAMPLE_COUNT * CLOCKS_PER_SECOND) / samples_rate, computed in u64
\* by the code; split here so that no intermediate exceeds 2^31
OutputPeriod ==
    OUTPUT_SAMPLE_COUNT * (CLOCKS_PER_SECOND \div SamplesRate)
      + (OUTPUT_SAMPLE_COUNT * (CLOCKS_PER_SECOND % SamplesRate)) \div SamplesRate

\* voice.get_period() belongs to the audio back end: its value is not
\* fixed by this program, so each call may return any of these
SinkPeriods == {1024, 200000}

Channels == 1..4

\* which channel a register address is dispatched to by Sound::wb (0: none)
ChannelOf(a) ==
    IF a \in \hFF10..\hFF14 THEN 1
    ELSE IF a \in \hFF16..\hFF19 THEN 2
    ELSE IF a \in \hFF1A..\hFF1E THEN 3
    ELSE IF a \in \hFF20..\hFF23 THEN 4
    ELSE IF a \in \hFF30..\hFF3F THEN 3
    ELSE 0

\* nothing handed to the sink
NoMix == [done |-> FALSE, bufs |-> << >>, left |-> << >>, right |-> << >>]

\* no shift made since the trigger
NoShifts == [n |-> 0, win |-> 0]

\* no call is being followed step by step
NoCall == [pc |-> "idle", from |-> "none", a |-> 0, overflow_checks |-> FALSE,
           iters |-> 0, entry |-> 0, steps |-> 0, calls |-> 0]

\* nothing added to a band-limited buffer so far
NoDeltas == [sum |-> 0, zero |-> FALSE]

\* the sum of the deltas lo..hi of one channel.run call
RECURSIVE DeltaSum(_, _, _)
DeltaSum(deltas, lo, hi) ==
    IF lo > hi THEN 0
    ELSE IF lo = hi THEN deltas[lo][2]
    ELSE DeltaSum(deltas, lo, (lo + hi) \div 2)
           + DeltaSum(deltas, (lo + hi) \div 2 + 1, hi)

\* the sum of the deltas of the channel.run calls lo..hi of a Sound call
RECURSIVE RunsSum(_, _, _)
RunsSum(runs, lo, hi) ==
    IF lo > hi THEN 0
    ELSE IF lo = hi THEN DeltaSum(runs[lo].deltas, 1, Len(runs[lo].deltas))
    ELSE RunsSum(runs, lo, (lo + hi) \div 2)
           + RunsSum(runs, (lo + hi) \div 2 + 1, hi)

\* the account of a buffer after the channel.run calls of a Sound call
Emitted(e, runs) ==
    [sum |-> e.sum + RunsSum(runs, 1, Len(runs)),
     zero |-> e.zero \/ \E i \in 1..Len(runs) :
                           \E j \in 1..Len(runs[i].deltas) :
                               runs[i].deltas[j][2] = 0]

\* The struct as a record, together with what the call in progress has
\* done so far (ticks applied, channel runs made, steps taken; base is the
\* absolute time at which the current output frame began).
Self ==
    [on |-> on, registerdata |-> registerdata, time |-> time,
     prev_time |-> prev_time, next_time |-> next_time,
     time_divider |-> time_divider,
     channel1 |-> channel1, channel2 |-> channel2,
     channel3 |-> channel3, channel4 |-> channel4,
     volume_left |-> volume_left, volume_right |-> volume_right,
     ticks |-> << >>,
     runs |-> [c \in Channels |-> << >>],
     nlen |-> 0, nenv |-> 0,
     events |-> << >>, base |-> abstime - time, nticks |-> nticks,
     overflow |-> swept, shifts |-> shifts, mixed |-> NoMix]

\* one record per channel.run call: the interval, what the channel was
\* like when called (dac: the wave channel's enabled_flag), which branch
\* was taken and what was added to the band-limited buffer
RunCall(c, start_time, end_time, r) ==
    [start |-> start_time, end |-> end_time,
     length_enabled |-> c.length_enabled, length |-> c.length,
     dac |-> IF "enabled_flag" \in DOMAIN c THEN c.enabled_flag ELSE TRUE,
     amp0 |-> c.last_amp, silent |-> r.silent,
     deltas |-> r.deltas, amp1 |-> r.ch.last_amp]

\* one record per step the sequencer takes: which step, the cursors and
\* the divider when it was taken, `to`: where a run of the channels ends,
\* n: the ticks applied before it, abs: next_time as an absolute time
Event(s, name, to) ==
    [ev |-> name, divider |-> s.time_divider, prev |-> s.prev_time,
     next |-> s.next_time, time |-> s.time, to |-> to,
     n |-> s.nticks, abs |-> s.base + s.next_time]

\* the shift count and the window of output bits after further shifts
RECURSIVE Shifted(_, _)
Shifted(sh, bits) ==
    IF bits = << >> THEN sh
    ELSE Shifted([n |-> sh.n + 1, win |-> (sh.win * 2 + Head(bits)) % 32768],
                 Tail(bits))

\* what Sound::run keeps of four channel.run results
Sound_ran_channels(s, start_time, end_time, r1, r2, r3, r4) ==
    [s EXCEPT !.channel1 = r1.ch, !.channel2 = r2.ch,
              !.channel3 = r3.ch, !.channel4 = r4.ch,
              !.events = Append(s.events, Event(s, "run", end_time)),
              !.shifts = Shifted(s.shifts,
                            NoiseChannel_bits(s.channel4, start_time, end_time)),
              !.runs = [c \in Channels |->
                  Append(s.runs[c],
                      CASE c = 1 -> RunCall(s.channel1, start_time, end_time, r1)
                        [] c = 2 -> RunCall(s.channel2, start_time, end_time, r2)
                        [] c = 3 -> RunCall(s.channel3, start_time, end_time, r3)
                        [] c = 4 -> RunCall(s.channel4, start_time, end_time, r4))]]

\* channel1.run .. channel4.run over the same interval
Sound_run_channels(s, start_time, end_time) ==
    Sound_ran_channels(s, start_time, end_time,
        SquareChannel_run(s.channel1, start_time, end_time),
        SquareChannel_run(s.channel2, start_time, end_time),
        WaveChannel_run(s.channel3, start_time, end_time),
        NoiseChannel_run(s.channel4, start_time, end_time))

\* the four step_length calls of a tick
Sound_tick_lengths(s) ==
    [s EXCEPT !.channel1 = SquareChannel_step_length(s.channel1),
              !.channel2 = SquareChannel_step_length(s.channel2),
              !.channel3 = WaveChannel_step_length(s.channel3),
              !.channel4 = NoiseChannel_step_length(s.channel4),
              !.nlen = s.nlen + 1,
              !.events = Append(s.events, Event(s, "length", s.next_time))]

\* the envelope and sweep steps of a tick, selected by time_divider
Sound_tick_divided_even(s) ==
    IF s.time_divider % 2 = 0
    THEN [s EXCEPT
            !.channel1.volume_envelope =
                VolumeEnvelope_step(s.channel1.volume_envelope),
            !.channel2.volume_envelope =
                VolumeEnvelope_step(s.channel2.volume_envelope),
            !.channel4.volume_envelope =
                VolumeEnvelope_step(s.channel4.volume_envelope),
            !.nenv = s.nenv + 1,
            !.events = Append(s.events, Event(s, "envelope", s.next_time))]
    ELSE [s EXCEPT !.channel1 = SquareChannel_step_sweep(s.channel1),
                   !.overflow = s.overflow
                                  \/ SquareChannel_sweep_overflows(s.channel1),
                   !.events = Append(s.events, Event(s, "sweep", s.next_time))]

Sound_tick_divided(s) ==
    IF s.time_divider = 0
    THEN [s EXCEPT
            !.channel1.volume_envelope =
                VolumeEnvelope_step(s.channel1.volume_envelope),
            !.channel2.volume_envelope =
                VolumeEnvelope_step(s.channel2.volume_envelope),
            !.channel4.volume_envelope =
                VolumeEnvelope_step(s.channel4.volume_envelope),
            !.nenv = s.nenv + 1,
            !.events = Append(s.events, Event(s, "envelope", s.next_time))]
    ELSE IF s.time_divider % 2 = 1
    THEN [s EXCEPT !.channel1 = SquareChannel_step_sweep(s.channel1),
                   !.overflow = s.overflow
                                  \/ SquareChannel_sweep_overflows(s.channel1),
                   !.events = Append(s.events, Event(s, "sweep", s.next_time))]
    ELSE s

\* the end of a tick: time_divider, prev_time and next_time move on
Sound_tick_advance(s) ==
    [s EXCEPT !.time_divider = (s.time_divider + 1) % 4,
              !.prev_time = s.next_time,
              !.next_time = s.next_time + TickPeriod,
              !.ticks = Append(s.ticks, s.next_time),
              !.nticks = s.nticks + 1,
              !.events = Append(s.events, Event(s, "tick", s.next_time))]

\* the body of the while loop of Sound::run: one frame-sequencer tick
Sound_tick(s) ==
    Sound_tick_advance(Sound_tick_divided(Sound_tick_lengths(
        Sound_run_channels(s, s.prev_time, s.next_time))))

\* whether the while loop of Sound::run takes another tick
Sound_tick_due_strict(s) == s.next_time < s.time

Sound_tick_due(s) == s.next_time <= s.time

RECURSIVE Sound_run_ticks(_)
Sound_run_ticks(s) ==
    IF Sound_tick_due(s) THEN Sound_run_ticks(Sound_tick(s)) ELSE s

\* the tail of Sound::run: advance the channels from prev_time to time
Sound_run_flush_stale(s) ==
    IF s.prev_time # s.time
    THEN Sound_run_channels(s, s.prev_time, s.time)
    ELSE s

Sound_run_flush(s) ==
    IF s.prev_time # s.time
    THEN [Sound_run_channels(s, s.prev_time, s.time)
             EXCEPT !.prev_time = s.time]
    ELSE s

Sound_run(s) == Sound_run_flush(Sound_run_ticks(s))

\* the index a as usize - 0xFF10 into registerdata
RegIndex(a) == a - \hFF10

\* the value Sound::rb returns once run() has been called
Sound_rb_value(s, a) ==
    IF a \in \hFF10..\hFF25 THEN s.registerdata[RegIndex(a)]
    ELSE IF a = \hFF26
    THEN (s.registerdata[RegIndex(a)] \div 16) * 16
           + (IF SquareChannel_on(s.channel1) THEN 1 ELSE 0)
           + (IF SquareChannel_on(s.channel2) THEN 2 ELSE 0)
           + (IF WaveChannel_on(s.channel3) THEN 4 ELSE 0)
           + (IF NoiseChannel_on(s.channel4) THEN 8 ELSE 0)
    ELSE IF a \in \hFF30..\hFF3F
    THEN U8(s.channel3.waveram[WaveRamIndex(a)] * 16)
           + s.channel3.waveram[WaveRamIndex(a) + 1]
    ELSE 0

\* the early return of Sound::wb:  if a != 0xFF26 && !self.on { return; }
Sound_wb_accepts_always(s, a) == TRUE

Sound_wb_accepts(s, a) == ~(a # \hFF26 /\ ~s.on)

\* the store into the register file
Sound_wb_store_mapped(s, a, v) ==
    IF a >= \hFF10 /\ a <= \hFF26 /\ a \notin {\hFF15, \hFF1F}
    THEN [s EXCEPT !.registerdata[RegIndex(a)] = v]
    ELSE s

Sound_wb_store(s, a, v) ==
    IF a >= \hFF10 /\ a <= \hFF26
    THEN [s EXCEPT !.registerdata[RegIndex(a)] = v]
    ELSE s

\* the match of Sound::wb
Sound_wb_dispatch(s, a, v) ==
    IF a \in \hFF10..\hFF14
    THEN [s EXCEPT !.channel1 = SquareChannel_wb(s.channel1, a, v),
                   !.overflow = s.overflow
                       \/ SquareChannel_wb_overflows(s.channel1, a, v)]
    ELSE IF a \in \hFF16..\hFF19
    THEN [s EXCEPT !.channel2 = SquareChannel_wb(s.channel2, a, v)]
    ELSE IF a \in \hFF1A..\hFF1E
    THEN [s EXCEPT !.channel3 = WaveChannel_wb(s.channel3, a, v)]
    ELSE IF a \in \hFF20..\hFF23
    THEN [s EXCEPT !.channel4 = NoiseChannel_wb(s.channel4, a, v),
                   !.shifts = IF a = \hFF23 /\ Bit(v, 7) = 1
                              THEN NoShifts ELSE s.shifts]
    ELSE IF a = \hFF24
    THEN [s EXCEPT !.volume_left = v % 8, !.volume_right = Shr(v, 4) % 8]
    ELSE IF a = \hFF26
    THEN [s EXCEPT !.on = (Bit(v, 7) = 1)]
    ELSE IF a \in \hFF30..\hFF3F
    THEN [s EXCEPT !.channel3 = WaveChannel_wb(s.channel3, a, v)]
    ELSE s

Sound_wb(s, a, v) ==
    IF ~Sound_wb_accepts(s, a) THEN s
    ELSE Sound_wb_dispatch(Sound_wb_store(Sound_run(s), a, v), a, v)

\* the end of an output frame, once run() has brought prev_time to time
Sound_end_frame_restart(s) ==
    [s EXCEPT !.next_time = TickPeriod,
              !.time = 0,
              !.prev_time = 0,
              !.base = s.base + s.time,
              !.events = Append(s.events, Event(s, "end_frame", s.time))]

Sound_end_frame(s) ==
    [s EXCEPT !.next_time = s.next_time - s.time,
              !.time = 0,
              !.prev_time = 0,
              !.base = s.base + s.time,
              !.events = Append(s.events, Event(s, "end_frame", s.time))]

\* left_vol and right_vol of mix_buffers, (volume / 7.0) * (1.0 / 15.0)
\* * 0.25, as a multiple of 1 / 420
Sound_mix_vol(volume) == volume

\* what channel i (1..4) adds to output sample j of one side; bit is the
\* channel's pan bit for that side
Sound_mix_add(pan, bit, bufs, i, j, vol) ==
    IF Bit(pan, bit) = 1 THEN bufs[i][j] * vol ELSE 0

\* Sound::mix_buffers: bufs[i] holds the samples read_samples returned for
\* channel i (they are of equal length); left and right are what play_buf
\* receives, as multiples of 1 / 420
Sound_mix_buffers_mono(s, bufs) ==
    LET pan == s.registerdata[RegIndex(\hFF25)]
        left_vol == Sound_mix_vol(s.volume_left)
        right_vol == Sound_mix_vol(s.volume_right)
    IN  [s EXCEPT !.mixed =
            [done |-> TRUE, bufs |-> bufs,
             left |-> [j \in 1..Len(bufs[1]) |->
                         Sound_mix_add(pan, 0, bufs, 1, j, left_vol)
                           + Sound_mix_add(pan, 1, bufs, 2, j, left_vol)
                           + Sound_mix_add(pan, 2, bufs, 3, j, left_vol)
                           + Sound_mix_add(pan, 3, bufs, 4, j, left_vol)],
             right |-> [j \in 1..Len(bufs[1]) |->
                         Sound_mix_add(pan, 0, bufs, 1, j, right_vol)
                           + Sound_mix_add(pan, 1, bufs, 2, j, right_vol)
                           + Sound_mix_add(pan, 2, bufs, 3, j, right_vol)
                           + Sound_mix_add(pan, 3, bufs, 4, j, right_vol)]]]

Sound_mix_buffers(s, bufs) ==
    LET pan == s.registerdata[RegIndex(\hFF25)]
        left_vol == Sound_mix_vol(s.volume_left)
        right_vol == Sound_mix_vol(s.volume_right)
    IN  [s EXCEPT !.mixed =
            [done |-> TRUE, bufs |-> bufs,
             left |-> [j \in 1..Len(bufs[1]) |->
                         Sound_mix_add(pan, 0, bufs, 1, j, left_vol)
                           + Sound_mix_add(pan, 1, bufs, 2, j, left_vol)
                           + Sound_mix_add(pan, 2, bufs, 3, j, left_vol)
                           + Sound_mix_add(pan, 3, bufs, 4, j, left_vol)],
             right |-> [j \in 1..Len(bufs[1]) |->
                         Sound_mix_add(pan, 4, bufs, 1, j, right_vol)
                           + Sound_mix_add(pan, 5, bufs, 2, j, right_vol)
                           + Sound_mix_add(pan, 6, bufs, 3, j, right_vol)
                           + Sound_mix_add(pan, 7, bufs, 4, j, right_vol)]]]

\* Sound::do_output, given what voice.get_period() returned and what the
\* four band-limited buffers hold once their frames are ended
Sound_do_output(s, get_period, bufs) ==
    IF s.time >= get_period
    THEN Sound_mix_buffers(Sound_end_frame(Sound_run(s)), bufs)
    ELSE s

Sound_do_cycle(s, cycles, get_period, bufs) ==
    IF ~s.on THEN s
    ELSE IF s.time + cycles >= OutputPeriod
    THEN Sound_do_output([s EXCEPT !.time = s.time + cycles], get_period, bufs)
    ELSE [s EXCEPT !.time = s.time + cycles]

---------------------------------------------------------------------------
(* The state machine *)

\* The band-limited buffers (BlipBuf) and the audio voice belong to external
\* crates.  What the channels add to their buffers is observed in runlog.
\* What read_samples returns from them at a mix is not fixed by this
\* program: each mix may find any of these four buffers of samples, one
\* per channel.
Bufs ==
    { << <<1, -1>>, <<10, -20>>, <<100, 300>>, <<1000, -3000>> >>,
      << <<2, 0>>, <<-30, 30>>, <<0, -500>>, <<7000, 7000>> >> }

NoWrite == [trigger |-> FALSE, enabled |-> FALSE,
            length_enabled |-> FALSE, length |-> 0]

\* Sound::new
InitWith(f) ==
    /\ on = FALSE
    /\ registerdata = [i \in 0..22 |-> 0]
    /\ time = 0
    /\ prev_time = 0
    /\ next_time = TickPeriod
    /\ time_divider = 0
    /\ channel1 = SquareChannel_new(TRUE)
    /\ channel2 = SquareChannel_new(FALSE)
    /\ channel3 = WaveChannel_new
    /\ channel4 = NoiseChannel_new
    /\ volume_left = 7
    /\ volume_right = 7
    /\ op = [kind |-> "new", a |-> 0, v |-> 0, ret |-> 0, accepted |-> FALSE]
    /\ ticklog = << >>
    /\ runlog = [c \in Channels |-> << >>]
    /\ abstime = 0
    /\ written = [a \in \hFF10..\hFF25 |-> -1]
    /\ lastw = [c \in Channels |-> NoWrite]
    /\ lenTicks = [c \in Channels |-> 0]
    /\ envTicks = [c \in Channels |-> 0]
    /\ lastsil = [c \in Channels |-> FALSE]
    /\ focus = f
    /\ steplog = << >>
    /\ nticks = 0
    /\ swept = FALSE
    /\ shifts = NoShifts
    /\ mix = NoMix
    /\ emitted = [c \in Channels |-> NoDeltas]
    /\ call = NoCall

\* the fields of the struct after a call
Commit(s) ==
    /\ on' = s.on
    /\ registerdata' = s.registerdata
    /\ time' = s.time
    /\ prev_time' = s.prev_time
    /\ next_time' = s.next_time
    /\ time_divider' = s.time_divider
    /\ channel1' = s.channel1
    /\ channel2' = s.channel2
    /\ channel3' = s.channel3
    /\ channel4' = s.channel4
    /\ volume_left' = s.volume_left
    /\ volume_right' = s.volume_right
    /\ ticklog' = s.ticks
    /\ runlog' = s.runs
    /\ steplog' = s.events
    /\ nticks' = s.nticks
    /\ swept' = s.overflow
    /\ shifts' = s.shifts
    /\ mix' = s.mixed
    /\ emitted' = [c \in Channels |-> Emitted(emitted[c], s.runs[c])]
    /\ UNCHANGED call
    /\ lastsil' = [c \in Channels |->
                     IF runlog[c] = << >> THEN lastsil[c]
                     ELSE LET r == runlog[c][Len(runlog[c])]
                          IN  r.length_enabled /\ r.length = 0]

ChannelRecord(s, c) ==
    CASE c = 1 -> s.channel1
      [] c = 2 -> s.channel2
      [] c = 3 -> s.channel3
      [] c = 4 -> s.channel4

\* the tick counters advance by the ticks the call applied
Counted(s) ==
    /\ lenTicks' = [c \in Channels |->
                      IF c = focus THEN lenTicks[c] + s.nlen ELSE 0]
    /\ envTicks' = [c \in Channels |->
                      IF c = focus THEN envTicks[c] + s.nenv ELSE 0]
    /\ UNCHANGED lastw

\* what the observation variables record of a read
Read(s, a) ==
    /\ Commit(s)
    /\ op' = [kind |-> "rb", a |-> a,
              v |-> IF op.kind = "wb" /\ op.accepted /\ op.a = a
                    THEN op.v ELSE -1,
              ret |-> Sound_rb_value(s, a), accepted |-> TRUE]
    /\ Counted(s)
    /\ UNCHANGED <<abstime, written, focus>>

\* pub fn rb(&mut self, a: u16) -> u8
Rb(a) == Read(Sound_run(Self), a)

\* what the observation variables record of a write
Written(s, a, v, acc, c) ==
    /\ Commit(s)
    /\ op' = [kind |-> "wb", a |-> a, v |-> v, ret |-> 0, accepted |-> acc]
    /\ written' = IF acc /\ a \in \hFF10..\hFF25
                  THEN [written EXCEPT ![a] = v]
                  ELSE written
    /\ IF acc /\ c # 0 /\ c = focus
       THEN /\ lastw' = [lastw EXCEPT ![c] =
                 [trigger |-> (a \in {\hFF14, \hFF19, \hFF1E, \hFF23}
                                 /\ Bit(v, 7) = 1),
                  enabled |-> ChannelRecord(s, c).enabled,
                  length_enabled |-> ChannelRecord(s, c).length_enabled,
                  length |-> ChannelRecord(s, c).length]]
            /\ lenTicks' = [lenTicks EXCEPT ![c] = 0]
            /\ envTicks' = [envTicks EXCEPT ![c] = 0]
       ELSE Counted(s)
    /\ UNCHANGED <<abstime, focus>>

\* pub fn wb(&mut self, a: u16, v: u8)
Wb(a, v) ==
    Written(Sound_wb(Self, a, v), a, v, Sound_wb_accepts(Self, a), ChannelOf(a))

\* what the observation variables record of a do_cycle
Cycled(s, cycles) ==
    /\ Commit(s)
    /\ op' = [kind |-> "do_cycle", a |-> 0, v |-> 0, ret |-> 0,
              accepted |-> on]
    /\ abstime' = IF on THEN abstime + cycles ELSE abstime
    /\ Counted(s)
    /\ UNCHANGED <<written, focus>>

\* pub fn do_cycle(&mut self, cycles: u32)
DoCycle(cycles, get_period, bufs) ==
    Cycled(Sound_do_cycle(Self, cycles, get_period, bufs), cycles)

---------------------------------------------------------------------------
(* Specification: the register file and the master enable.  The CPU       *)
(* program switches the master on and off, writes and reads registers of  *)
(* every kind and lets time pass.                                         *)

\* cycles passed to do_cycle stop once this much time has been accumulated
MaxTime == 240000

Cycles == {16384, 131072}

Writes ==
    { <<\hFF26, \h80>>, <<\hFF26, \h00>>,
      <<\hFF12, \hF3>>, <<\hFF15, \h5A>>, <<\hFF1F, \hA5>>,
      <<\hFF25, \h01>>, <<\hFF30, \hAB>>, <<\hFF40, \h91>> }

Reads == {\hFF12, \hFF15, \hFF1F, \hFF25}

Init == InitWith(0)

Next ==
    \/ \E w \in Writes : Wb(w[1], w[2])
    \/ \E a \in Reads : Rb(a)
    \/ \E cycles \in Cycles, gp \in SinkPeriods, bufs \in Bufs :
          abstime + cycles <= MaxTime /\ DoCycle(cycles, gp, bufs)

Spec == Init /\ [][Next]_vars

---------------------------------------------------------------------------
(* Specification: one channel at work.  The CPU program drives the        *)
(* registers of one channel (focus): it loads a short length and a        *)
(* volume, triggers the channel, reads the status register and lets a few *)
(* sequencer ticks pass.                                                  *)

\* cycles passed to do_cycle stop once this much time has been accumulated
MaxTimeChan == 98304

CyclesChan == {16384, 32768}

FocusWrites(f) ==
    CASE f = 1 -> { <<\hFF10, \h19>>, <<\hFF11, \h3E>>, <<\hFF12, \hD9>>,
                    <<\hFF14, \hC7>> }
      [] f = 2 -> { <<\hFF16, \h3D>>, <<\hFF17, \hEA>>, <<\hFF19, \hC7>> }
      [] f = 3 -> { <<\hFF1A, \h80>>, <<\hFF1B, \hFE>>, <<\hFF1C, \h20>>,
                    <<\hFF1E, \hC0>>, <<\hFF3F, \hF0>> }
      [] f = 4 -> { <<\hFF20, \h3E>>, <<\hFF21, \hD9>>, <<\hFF22, \h70>>,
                    <<\hFF23, \hC0>> }

WritesChan == { <<\hFF26, \h80>> } \cup FocusWrites(focus)

ReadsChan == {\hFF26}

InitChan == \E f \in Channels : InitWith(f)

NextChan ==
    \/ \E w \in WritesChan : Wb(w[1], w[2])
    \/ \E a \in ReadsChan : Rb(a)
    \/ \E cycles \in CyclesChan, gp \in SinkPeriods, bufs \in Bufs :
          abstime + cycles <= MaxTimeChan /\ DoCycle(cycles, gp, bufs)

SpecChan == InitChan /\ [][NextChan]_vars

---------------------------------------------------------------------------
(* Specification: the volume envelopes.  The CPU program sets a rising    *)
(* envelope on one of the channels that have one, triggers the channel    *)
(* and lets time pass, across the end of an output frame.                 *)

\* cycles passed to do_cycle stop once this much time has been accumulated
MaxTimeEnv == 229376

CyclesEnv == {32768, 65536}

EnvWrites(f) ==
    CASE f = 1 -> { <<\hFF12, \hD9>>, <<\hFF14, \h87>> }
      [] f = 2 -> { <<\hFF17, \hEA>>, <<\hFF19, \h80>> }
      [] f = 4 -> { <<\hFF21, \hD9>>, <<\hFF21, \hE2>>, <<\hFF23, \h80>> }

WritesEnv == { <<\hFF26, \h80>> } \cup EnvWrites(focus)

ReadsEnv == {\hFF26}

InitEnv == \E f \in {1, 2, 4} : InitWith(f)

NextEnv ==
    \/ \E w \in WritesEnv : Wb(w[1], w[2])
    \/ \E a \in ReadsEnv : Rb(a)
    \/ \E cycles \in CyclesEnv, gp \in SinkPeriods, bufs \in Bufs :
          abstime + cycles <= MaxTimeEnv /\ DoCycle(cycles, gp, bufs)

SpecEnv == InitEnv /\ [][NextEnv]_vars

---------------------------------------------------------------------------
(* Specification: the wave channel.  The CPU program fills wave RAM       *)
(* bytes, reads them back, switches the wave DAC and the master on and    *)
(* off, triggers the wave channel and lets time pass.                     *)

\* cycles passed to do_cycle stop once this much time has been accumulated
MaxTimeWave == 32768

CyclesWave == {16384}

WritesWave ==
    { <<\hFF26, \h80>>, <<\hFF26, \h00>>,
      <<\hFF1A, \h80>>, <<\hFF1A, \h00>>, <<\hFF1C, \h20>>, <<\hFF1E, \h80>>,
      <<\hFF30, \hAB>>, <<\hFF31, \hCD>>, <<\hFF3F, \h12>> }

ReadsWave == {\hFF30, \hFF31, \hFF3F}

InitWave == InitWith(3)

NextWave ==
    \/ \E w \in WritesWave : Wb(w[1], w[2])
    \/ \E a \in ReadsWave : Rb(a)
    \/ \E cycles \in CyclesWave, gp \in SinkPeriods, bufs \in Bufs :
          abstime + cycles <= MaxTimeWave /\ DoCycle(cycles, gp, bufs)

SpecWave == InitWave /\ [][NextWave]_vars

---------------------------------------------------------------------------
(* Specification: the master switch under a sounding channel.  The CPU    *)
(* program starts channel 1, switches the master off and on again, writes *)
(* registers of channel 1 in between and reads them back.                 *)

\* cycles passed to do_cycle stop once this much time has been accumulated
MaxTimePower == 32768

CyclesPower == {16384}

WritesPower ==
    { <<\hFF26, \h80>>, <<\hFF26, \h00>>,
      <<\hFF11, \hFF>>, <<\hFF12, \hF3>>, <<\hFF14, \h87>> }

ReadsPower == {\hFF11, \hFF26}

InitPower == InitWith(1)

NextPower ==
    \/ \E w \in WritesPower : Wb(w[1], w[2])
    \/ \E a \in ReadsPower : Rb(a)
    \/ \E cycles \in CyclesPower, gp \in SinkPeriods, bufs \in Bufs :
          abstime + cycles <= MaxTimePower /\ DoCycle(cycles, gp, bufs)

SpecPower == InitPower /\ [][NextPower]_vars

---------------------------------------------------------------------------
(* Specification: the clock.  The CPU program lets time pass in chunks    *)
(* that are no multiples of the sequencer period, across the ends of      *)
(* output frames, reads the status register and switches the master.      *)

\* cycles passed to do_cycle stop once this much time has been accumulated
MaxTimeClock == 420000

CyclesClock == {12000, 100000}

WritesClock == { <<\hFF26, \h80>>, <<\hFF26, \h00>> }

ReadsClock == {\hFF26}

InitClock == InitWith(0)

NextClock ==
    \/ \E w \in WritesClock : Wb(w[1], w[2])
    \/ \E a \in ReadsClock : Rb(a)
    \/ \E cycles \in CyclesClock, gp \in SinkPeriods, bufs \in Bufs :
          abstime + cycles <= MaxTimeClock /\ DoCycle(cycles, gp, bufs)

SpecClock == InitClock /\ [][NextClock]_vars

---------------------------------------------------------------------------
(* Specification: the noise generator.  The CPU program switches the      *)
(* master on, sets the noise channel to full volume and to the 15-bit     *)
(* LFSR at one shift per 8 cycles, triggers it, and from then on lets 8   *)
(* cycles pass at a time and reads the status register after each.        *)

\* cycles passed to do_cycle stop once this much time has been accumulated
MaxTimeLfsr == 262272

CyclesLfsr == {8}

ProgramLfsr ==
    << <<\hFF26, \h80>>, <<\hFF21, \hF0>>, <<\hFF22, \h00>>,
       <<\hFF23, \h80>> >>

ReadsLfsr == {\hFF26}

\* the sink asks for a new frame as soon as one is due
SinkPeriodsLfsr == {1024}

InitLfsr == InitWith(4)

NextLfsr ==
    \/ \E k \in 1..Len(ProgramLfsr) :
          /\ IF k = 1 THEN op.kind = "new"
              ELSE op.kind = "wb" /\ <<op.a, op.v>> = ProgramLfsr[k - 1]
          /\ Wb(ProgramLfsr[k][1], ProgramLfsr[k][2])
    \/ \E a \in ReadsLfsr : prev_time # time /\ Rb(a)
    \/ \E cycles \in CyclesLfsr, gp \in SinkPeriodsLfsr, bufs \in Bufs :
          /\ lastw[4].trigger /\ prev_time = time
          /\ abstime + cycles <= MaxTimeLfsr
          /\ DoCycle(cycles, gp, bufs)

SpecLfsr == InitLfsr /\ [][NextLfsr]_vars

---------------------------------------------------------------------------
(* Specification: the mixer.  The CPU program sets the pan register and   *)
(* the master volumes and lets output frames pass; at each frame end the  *)
(* band-limited buffers deliver samples for the four channels.            *)

\* cycles passed to do_cycle stop once this much time has been accumulated
MaxTimeMix == 400000

CyclesMix == {100000}

WritesMix ==
    { <<\hFF26, \h80>>, <<\hFF25, \h01>>, <<\hFF25, \hA4>>,
      <<\hFF25, \hFF>>, <<\hFF24, \h35>> }

ReadsMix == {\hFF25}

InitMix == InitWith(0)

NextMix ==
    \/ \E w \in WritesMix : Wb(w[1], w[2])
    \/ \E a \in ReadsMix : Rb(a)
    \/ \E cycles \in CyclesMix, gp \in SinkPeriods, bufs \in Bufs :
          abstime + cycles <= MaxTimeMix /\ DoCycle(cycles, gp, bufs)

SpecMix == InitMix /\ [][NextMix]_vars

---------------------------------------------------------------------------
(* Specification: the ranges of the channel registers.  The CPU program   *)
(* writes extreme bytes to the length, volume, sweep and frequency        *)
(* registers of one channel (focus), triggers it and lets sequencer ticks *)
(* pass.                                                                  *)

\* cycles passed to do_cycle stop once this much time has been accumulated
MaxTimeRange == 65536

CyclesRange == {16384, 32768}

RangeWrites(f) ==
    CASE f = 1 -> { <<\hFF10, \h19>>, <<\hFF10, \h11>>, <<\hFF11, \h80>>,
                    <<\hFF13, \hC0>>, <<\hFF14, \hFF>> }
      [] f = 2 -> { <<\hFF16, \h40>>, <<\hFF18, \hC0>>, <<\hFF19, \hFF>> }
      [] f = 3 -> { <<\hFF1A, \h80>>, <<\hFF1B, \h00>>, <<\hFF1C, \hFF>>,
                    <<\hFF1C, \h40>>, <<\hFF1D, \h80>>, <<\hFF1E, \hFF>> }
      [] f = 4 -> { <<\hFF20, \h00>>, <<\hFF21, \hF0>>, <<\hFF22, \hFF>>,
                    <<\hFF23, \hC0>> }

WritesRange == { <<\hFF26, \h80>> } \cup RangeWrites(focus)

ReadsRange == {\hFF26}

InitRange == \E f \in Channels : InitWith(f)

NextRange ==
    \/ \E w \in WritesRange : Wb(w[1], w[2])
    \/ \E a \in ReadsRange : Rb(a)
    \/ \E cycles \in CyclesRange, gp \in SinkPeriods, bufs \in Bufs :
          abstime + cycles <= MaxTimeRange /\ DoCycle(cycles, gp, bufs)

SpecRange == InitRange /\ [][NextRange]_vars

---------------------------------------------------------------------------
(* Specification: Sound::run followed one loop iteration at a time, with   *)
(* the u32 cursors at their full width.  In this specification time,       *)
(* prev_time and next_time are held as two 16-bit halves [hi, lo], and     *)
(* `call` tells where the call in progress stands.  No channel is ever     *)
(* triggered, so every channel.run takes its silent branch; of the         *)
(* observation variables only op, nticks and mix are kept.                 *)
(*                                                                         *)
(* `time += cycles` and `next_time += CLOCKS_PER_SECOND / 256` are u32     *)
(* additions: a build with overflow checks (debug) panics when the sum     *)
(* does not fit, a build without them (release) wraps.  Both builds are    *)
(* followed (call.overflow_checks).                                        *)

Half == 65536

\* a u32 from a number below 2^31
U32_of(x) == [hi |-> x \div Half, lo |-> x % Half]

\* wrapping u32 addition and whether the sum did not fit
U32_add(a, b) ==
    [hi |-> (a.hi + b.hi + (a.lo + b.lo) \div Half) % Half,
     lo |-> (a.lo + b.lo) % Half]

U32_add_overflows(a, b) == a.hi + b.hi + (a.lo + b.lo) \div Half >= Half

\* wrapping u32 subtraction
U32_sub(a, b) ==
    [hi |-> (a.hi - b.hi - (IF a.lo < b.lo THEN 1 ELSE 0)) % Half,
     lo |-> (a.lo - b.lo) % Half]

U32_le(a, b) == a.hi < b.hi \/ (a.hi = b.hi /\ a.lo <= b.lo)

\* calls made and loop iterations followed stop at these numbers
MaxCallsLoop == 4

MaxStepsLoop == 16

CyclesLoop == {20000, 200000}

ReadsLoop == {\hFF26}

\* The states the specification starts in: wb(0xFF26, 0x80) after
\* construction, then do_cycle(cycles), which has reached time >=
\* output_period and time >= voice.get_period(), has entered Sound::run
\* and stands at the head of the while loop with k - 1 iterations made
\* (next_time = k * 16384).  cycles is 200000, 2^32 - 50000 or 2^32 - 1.
LoopStarts ==
    { [time |-> [hi |-> 3, lo |-> 3392], k |-> 10],
      [time |-> [hi |-> 65535, lo |-> 15536], k |-> 262140],
      [time |-> [hi |-> 65535, lo |-> 65535], k |-> 262142] }

\* k * (CLOCKS_PER_SECOND / 256) as a u32, for k < 2^18
U32_ticks(k) == [hi |-> k \div 4, lo |-> (k % 4) * TickPeriod]

InitLoop ==
    \E st \in LoopStarts, chk \in BOOLEAN :
        /\ on = TRUE
        /\ registerdata = [i \in 0..22 |-> IF i = RegIndex(\hFF26) THEN \h80 ELSE 0]
        /\ time = st.time
        /\ prev_time = U32_ticks(st.k - 1)
        /\ next_time = U32_ticks(st.k)
        /\ time_divider = (st.k - 1) % 4
        /\ channel1 = SquareChannel_new(TRUE)
        /\ channel2 = SquareChannel_new(FALSE)
        /\ channel3 = WaveChannel_new
        /\ channel4 = NoiseChannel_new
        /\ volume_left = 7
        /\ volume_right = 7
        /\ op = [kind |-> "wb", a |-> \hFF26, v |-> \h80, ret |-> 0,
                 accepted |-> TRUE]
        /\ ticklog = << >>
        /\ runlog = [c \in Channels |-> << >>]
        /\ abstime = 0
        /\ written = [a \in \hFF10..\hFF25 |-> -1]
        /\ lastw = [c \in Channels |-> NoWrite]
        /\ lenTicks = [c \in Channels |-> 0]
        /\ envTicks = [c \in Channels |-> 0]
        /\ lastsil = [c \in Channels |-> FALSE]
        /\ focus = 0
        /\ steplog = << >>
        /\ nticks = st.k - 1
        /\ swept = FALSE
        /\ shifts = NoShifts
        /\ mix = NoMix
        /\ emitted = [c \in Channels |-> NoDeltas]
        /\ call = [pc |-> "while", from |-> "do_cycle", a |-> 0,
                   overflow_checks |-> chk, iters |-> st.k - 1,
                   entry |-> U32_ticks(1), steps |-> 0, calls |-> 0]

\* what no step of a call followed in this way touches
LoopKept ==
    UNCHANGED <<on, registerdata, volume_left, volume_right, ticklog, runlog,
                abstime, written, lastw, lenTicks, envTicks, lastsil, focus,
                steplog, swept, shifts, emitted>>

\* pub fn do_cycle, up to the call of run() in do_output
LoopDoCycle(cycles, get_period) ==
    /\ call.pc = "idle"
    /\ call.calls < MaxCallsLoop
    /\ LoopKept
    /\ UNCHANGED <<prev_time, next_time, time_divider, nticks, mix,
                   channel1, channel2, channel3, channel4>>
    /\ op' = [kind |-> "do_cycle", a |-> 0, v |-> 0, ret |-> 0, accepted |-> on]
    /\ IF ~on
       THEN /\ call' = [call EXCEPT !.calls = call.calls + 1]
            /\ UNCHANGED time
       ELSE IF U32_add_overflows(time, U32_of(cycles)) /\ call.overflow_checks
       THEN /\ call' = [call EXCEPT !.pc = "panic", !.from = "do_cycle"]
            /\ UNCHANGED time
       ELSE /\ time' = U32_add(time, U32_of(cycles))
            /\ IF /\ U32_le(U32_of(OutputPeriod), time')
                  /\ U32_le(U32_of(get_period), time')
               THEN call' = [call EXCEPT !.pc = "while", !.from = "do_cycle",
                                         !.iters = 0, !.entry = next_time]
               ELSE call' = [call EXCEPT !.calls = call.calls + 1]

\* pub fn rb, up to its call of run()
LoopRb(a) ==
    /\ call.pc = "idle"
    /\ call.calls < MaxCallsLoop
    /\ LoopKept
    /\ UNCHANGED <<time, prev_time, next_time, time_divider, nticks, mix, op,
                   channel1, channel2, channel3, channel4>>
    /\ call' = [call EXCEPT !.pc = "while", !.from = "rb", !.a = a,
                            !.iters = 0, !.entry = next_time]

\* channel1 after the run, step_length, envelope and sweep steps of a tick
LoopTick_channel1 ==
    LET c == SquareChannel_step_length(
                 SquareChannel_run(channel1, prev_time, next_time).ch)
    IN  IF time_divider = 0
        THEN [c EXCEPT !.volume_envelope = VolumeEnvelope_step(c.volume_envelope)]
        ELSE IF time_divider % 2 = 1 THEN SquareChannel_step_sweep(c)
        ELSE c

LoopTick_channel2 ==
    LET c == SquareChannel_step_length(
                 SquareChannel_run(channel2, prev_time, next_time).ch)
    IN  IF time_divider = 0
        THEN [c EXCEPT !.volume_envelope = VolumeEnvelope_step(c.volume_envelope)]
        ELSE c

LoopTick_channel3 ==
    WaveChannel_step_length(WaveChannel_run(channel3, prev_time, next_time).ch)

LoopTick_channel4 ==
    LET c == NoiseChannel_step_length(
                 NoiseChannel_run(channel4, prev_time, next_time).ch)
    IN  IF time_divider = 0
        THEN [c EXCEPT !.volume_envelope = VolumeEnvelope_step(c.volume_envelope)]
        ELSE c

\* while self.next_time <= self.time
LoopTick_due == U32_le(next_time, time)

\* one iteration of the while loop of Sound::run
LoopTick ==
    /\ call.pc = "while"
    /\ LoopTick_due
    /\ call.steps < MaxStepsLoop
    /\ LoopKept
    /\ UNCHANGED <<time, mix, op>>
    /\ channel1' = LoopTick_channel1
    /\ channel2' = LoopTick_channel2
    /\ channel3' = LoopTick_channel3
    /\ channel4' = LoopTick_channel4
    /\ time_divider' = (time_divider + 1) % 4
    /\ prev_time' = next_time
    /\ IF U32_add_overflows(next_time, U32_of(TickPeriod)) /\ call.overflow_checks
       THEN /\ call' = [call EXCEPT !.pc = "panic", !.from = "run",
                                    !.steps = call.steps + 1]
            /\ UNCHANGED <<next_time, nticks>>
       ELSE /\ next_time' = U32_add(next_time, U32_of(TickPeriod))
            /\ nticks' = nticks + 1
            /\ call' = [call EXCEPT !.iters = call.iters + 1,
                                    !.steps = call.steps + 1]

\* the channels after the tail of Sound::run
LoopFlush(c, r) == IF prev_time # time THEN r.ch ELSE c

\* the loop of Sound::run is left; the tail of run, and then the rest of
\* the caller: the match of rb, or end_frame and mix_buffers of do_output
LoopExit(bufs) ==
    /\ call.pc = "while"
    /\ ~LoopTick_due
    /\ LoopKept
    /\ UNCHANGED <<time_divider, nticks>>
    /\ channel1' = LoopFlush(channel1, SquareChannel_run(channel1, prev_time, time))
    /\ channel2' = LoopFlush(channel2, SquareChannel_run(channel2, prev_time, time))
    /\ channel3' = LoopFlush(channel3, WaveChannel_run(channel3, prev_time, time))
    /\ channel4' = LoopFlush(channel4, NoiseChannel_run(channel4, prev_time, time))
    /\ call' = [call EXCEPT !.pc = "idle", !.calls = call.calls + 1]
    /\ IF call.from = "rb"
       THEN /\ prev_time' = time
            /\ op' = [kind |-> "rb", a |-> call.a, v |-> -1,
                      ret |-> Sound_rb_value(
                                 [registerdata |-> registerdata,
                                  channel1 |-> channel1', channel2 |-> channel2',
                                  channel3 |-> channel3', channel4 |-> channel4'],
                                 call.a),
                      accepted |-> TRUE]
            /\ UNCHANGED <<time, next_time, mix>>
       ELSE /\ next_time' = U32_sub(next_time, time)
            /\ time' = U32_of(0)
            /\ prev_time' = U32_of(0)
            /\ mix' = Sound_mix_buffers(
                          [registerdata |-> registerdata,
                           volume_left |-> volume_left,
                           volume_right |-> volume_right, mixed |-> NoMix],
                          bufs).mixed
            /\ op' = [kind |-> "do_cycle", a |-> 0, v |-> 0, ret |-> 0,
                      accepted |-> TRUE]

NextLoop ==
    \/ \E cycles \in CyclesLoop, gp \in SinkPeriods : LoopDoCycle(cycles, gp)
    \/ \E a \in ReadsLoop : LoopRb(a)
    \/ LoopTick
    \/ \E bufs \in Bufs : LoopExit(bufs)

SpecLoop == InitLoop /\ [][NextLoop]_vars

---------------------------------------------------------------------------
(* Specification: what a channel adds to its band-limited buffer.  The     *)
(* CPU program makes one channel (focus) sound and then changes what it    *)
(* plays while it sounds: the volume (down to 0), the wave channel's DAC,  *)
(* volume code and wave RAM, a short length that runs out.                 *)

\* cycles passed to do_cycle stop once this much time has been accumulated
MaxTimeDelta == 49152

CyclesDelta == {16384}

DeltaWrites(f) ==
    CASE f = 1 -> { <<\hFF11, \h3F>>, <<\hFF12, \hF0>>, <<\hFF12, \h1B>>,
                    <<\hFF12, \h00>>, <<\hFF14, \hC7>>, <<\hFF14, \h87>> }
      [] f = 2 -> { <<\hFF16, \hBF>>, <<\hFF17, \hF1>>, <<\hFF17, \h00>>,
                    <<\hFF19, \hC7>> }
      [] f = 3 -> { <<\hFF1A, \h80>>, <<\hFF1A, \h00>>, <<\hFF1B, \hFF>>,
                    <<\hFF1C, \h20>>, <<\hFF1C, \h60>>, <<\hFF1C, \hFF>>,
                    <<\hFF1E, \hC0>>, <<\hFF30, \hF0>>, <<\hFF36, \h9F>> }
      [] f = 4 -> { <<\hFF21, \hF0>>, <<\hFF21, \hF1>>, <<\hFF21, \h00>>,
                    <<\hFF22, \h70>>, <<\hFF23, \h80>> }

WritesDelta == { <<\hFF26, \h80>> } \cup DeltaWrites(focus)

ReadsDelta == {\hFF26}

InitDelta == \E f \in Channels : InitWith(f)

NextDelta ==
    \/ \E w \in WritesDelta : Wb(w[1], w[2])
    \/ \E a \in ReadsDelta : Rb(a)
    \/ \E cycles \in CyclesDelta, gp \in SinkPeriods, bufs \in Bufs :
          abstime + cycles <= MaxTimeDelta /\ DoCycle(cycles, gp, bufs)

SpecDelta == InitDelta /\ [][NextDelta]_vars

---------------------------------------------------------------------------
(* Claims *)

\* C1: while the master enable is off, a wb to any address other than
\* 0xFF26 leaves the whole APU state unchanged: the register file, the four
\* channels (wave RAM and envelopes included), volume_left, volume_right,
\* time, prev_time, next_time and time_divider.
C1_OffWriteIgnored ==
    [][(~on /\ op'.kind = "wb" /\ op'.a # \hFF26) => UNCHANGED apu]_vars

\* a write to NR12 is refused while the master is off, after the register
\* file has been filled and time has passed
C1_Witness ==
    /\ ~on
    /\ op.kind = "wb" /\ op.a = \hFF12 /\ ~op.accepted
    /\ registerdata[RegIndex(\hFF25)] = 1
    /\ abstime >= TickPeriod

\* C2: once a byte v has been written to an address a in 0xFF10..0xFF25
\* (0xFF15 and 0xFF1F included) while the APU is on, the register file holds
\* v at a, and every rb(a) returns v, whatever do_cycle calls, reads and
\* writes to other addresses come in between, until a write to a is accepted
\* again.
C2_ReadBack ==
    \A a \in \hFF10..\hFF25 :
        written[a] # -1 =>
            /\ registerdata[RegIndex(a)] = written[a]
            /\ (op.kind = "rb" /\ op.a = a) => op.ret = written[a]

\* the unmapped 0xFF1F is read back after time has passed and the master
\* has been switched off
C2_Witness ==
    /\ op.kind = "rb" /\ op.a = \hFF1F /\ op.ret = \hA5
    /\ written[\hFF1F] = \hA5
    /\ ~on
    /\ abstime >= TickPeriod

\* C3: when a read or an accepted write takes effect, every sequencer tick
\* scheduled at a time <= time has been applied, in strictly increasing time
\* order, and no tick scheduled after time has been applied: next_time > time,
\* prev_time == time, and the latest tick applied was due at or before time.
C3_TicksBeforeAccess ==
    (op.kind = "rb" \/ (op.kind = "wb" /\ op.accepted)) =>
        /\ next_time > time
        /\ prev_time = time
        /\ next_time - TickPeriod <= time
        /\ \A i \in 1..Len(ticklog) : ticklog[i] <= time
        /\ \A i \in 1..(Len(ticklog) - 1) : ticklog[i] < ticklog[i + 1]

\* an accepted write drains several pending ticks, the last of them due
\* exactly at time
C3_Witness ==
    /\ op.kind = "wb" /\ op.accepted
    /\ Len(ticklog) >= 2
    /\ ticklog[Len(ticklog)] = time

\* the on() report of channel c
ChannelOn(c) ==
    CASE c = 1 -> SquareChannel_on(channel1)
      [] c = 2 -> SquareChannel_on(channel2)
      [] c = 3 -> WaveChannel_on(channel3)
      [] c = 4 -> NoiseChannel_on(channel4)

ChannelLength(c) ==
    CASE c = 1 -> channel1.length
      [] c = 2 -> channel2.length
      [] c = 3 -> channel3.length
      [] c = 4 -> channel4.length

\* C4: length countdown.  From a state with enabled, length_enabled and
\* length == L >= 1 (the state a write to the channel left), and with no
\* further write to the channel, the channel reports on() after every number
\* of length ticks smaller than L, and reports not on() after exactly L
\* length ticks and after every later tick.
C4_LengthCountdown ==
    \A c \in Channels :
        (c = focus /\ lastw[c].enabled /\ lastw[c].length_enabled
           /\ lastw[c].length >= 1) =>
            /\ ChannelOn(c) <=> (lenTicks[c] < lastw[c].length)
            /\ ChannelLength(c) =
                  lastw[c].length - Min(lenTicks[c], lastw[c].length)

\* a channel loaded with length 2 has seen its second and a later length tick
C4_Witness ==
    \E c \in Channels :
        /\ c = focus
        /\ lastw[c].enabled /\ lastw[c].length_enabled
        /\ lastw[c].length = 2
        /\ lenTicks[c] = 3
        /\ ~ChannelOn(c)

\* C6: sweep overflow.  When channel 1 has sweep_period > 0, sweep_shift > 0
\* and sweep_by_adding, and is triggered with a frequency f such that
\* f + (f >> sweep_shift) >= 2048, then right after the trigger (which performs
\* the first sweep step) channel 1 is silenced: period == 0 and on() is false.
C6_SweepOverflowSilences ==
    (/\ op.kind = "wb" /\ op.accepted
     /\ op.a = \hFF14 /\ Bit(op.v, 7) = 1
     /\ channel1.sweep_period > 0
     /\ channel1.sweep_shift > 0
     /\ channel1.sweep_by_adding
     /\ channel1.frequency
          + Shr(channel1.frequency, channel1.sweep_shift) >= 2048) =>
        /\ channel1.period = 0
        /\ ~SquareChannel_on(channel1)

\* a channel.run call made with length_enabled and length == 0
Sil(r) == r.length_enabled /\ r.length = 0

\* C7: silencing.  A channel.run(start, end) call made with length_enabled
\* and length == 0 emits no delta other than a single one of -last_amp at
\* start (and only when last_amp was non-zero) and leaves last_amp == 0; the
\* run calls that follow emit no delta at all while the condition persists.
C7_Silencing ==
    \A c \in Channels :
        \A i \in 1..Len(runlog[c]) :
            LET r == runlog[c][i]
                before == IF i = 1 THEN lastsil[c] ELSE Sil(runlog[c][i - 1])
            IN  Sil(r) =>
                    /\ r.deltas = IF r.amp0 # 0
                                  THEN << <<r.start, -r.amp0>> >>
                                  ELSE << >>
                    /\ r.amp1 = 0
                    /\ before => r.deltas = << >>

\* a sounding channel whose length has just run out is flushed by one run
\* call, and the next run call finds it silent
C7_Witness ==
    \E c \in Channels :
        \E i \in 1..(Len(runlog[c]) - 1) :
            /\ Sil(runlog[c][i])
            /\ runlog[c][i].amp0 # 0
            /\ runlog[c][i].deltas # << >>
            /\ Sil(runlog[c][i + 1])

\* the envelope of channel c (channels 1, 2 and 4 have one)
Envelope(c) ==
    CASE c = 1 -> channel1.volume_envelope
      [] c = 2 -> channel2.volume_envelope
      [] c = 4 -> channel4.volume_envelope

\* C5: envelope ramp.  After an NRx2 write giving initial_volume I, period
\* P > 0 and direction up, followed by an NRx4 trigger, and with no further
\* write to the channel, the volume after n envelope ticks is
\* min(15, I + n / P): it reaches 15 after (15 - I) * P envelope ticks and
\* stays there, never wrapping.
C5_EnvelopeRamp ==
    \A c \in {1, 2, 4} :
        (c = focus /\ lastw[c].trigger
           /\ Envelope(c).period > 0 /\ Envelope(c).goes_up) =>
            Envelope(c).volume =
                Min(15, Envelope(c).initial_volume
                          + envTicks[c] \div Envelope(c).period)

\* an envelope started at 13 with period 1 has been at 15 for two ticks
C5_Witness ==
    \E c \in {1, 2, 4} :
        /\ c = focus /\ lastw[c].trigger
        /\ Envelope(c).period = 1 /\ Envelope(c).goes_up
        /\ Envelope(c).initial_volume = 13
        /\ envTicks[c] = 4
        /\ Envelope(c).volume = 15

\* C8: wave RAM round trip.  A byte v written to 0xFF30 + k while the APU
\* is on is returned by an rb of the same address that follows immediately.
C8_WaveRamRoundTrip ==
    (op.kind = "rb" /\ op.a \in \hFF30..\hFF3F /\ op.v # -1) =>
        op.ret = op.v

\* 0xCD is read back from 0xFF31 right after it was written over the
\* nibbles that a write to 0xFF30 had stored
C8_Witness ==
    /\ op.kind = "rb" /\ op.a = \hFF31
    /\ op.v = \hCD /\ op.ret = \hCD
    /\ written[\hFF1C] = \h20
    /\ channel3.waveram[8] = 2

\* C9: wave RAM layout.  An accepted wb(0xFF30 + k, v) sets waveram[2k] to
\* the high nibble of v and waveram[2k+1] to the low nibble of v and changes
\* no other waveram entry.
C9_WaveRamLayout ==
    [][(op'.kind = "wb" /\ op'.accepted /\ op'.a \in \hFF30..\hFF3F) =>
          channel3'.waveram =
              [[channel3.waveram
                  EXCEPT ![2 * (op'.a - \hFF30)] = Shr(op'.v, 4)]
                  EXCEPT ![2 * (op'.a - \hFF30) + 1] = op'.v % 16]]_vars

\* C10: wave DAC gating.  In every reachable state the wave channel
\* satisfies enabled => enabled_flag; so while the DAC is disabled the
\* channel reports not on() and every run call takes the silent branch, and
\* an NR34 write with the trigger bit set does not enable the channel.
C10_WaveDacGating ==
    /\ channel3.enabled => channel3.enabled_flag
    /\ ~channel3.enabled_flag => ~WaveChannel_on(channel3)
    /\ \A i \in 1..Len(runlog[3]) :
          ~runlog[3][i].dac => runlog[3][i].silent
    /\ (op.kind = "wb" /\ op.accepted /\ op.a = \hFF1E /\ Bit(op.v, 7) = 1
          /\ ~channel3.enabled_flag) => ~channel3.enabled

\* the DAC has been switched off under a running wave channel, and the
\* trigger written after that leaves the channel disabled
C10_Witness ==
    /\ op.kind = "wb" /\ op.accepted /\ op.a = \hFF1E /\ Bit(op.v, 7) = 1
    /\ written[\hFF1A] = \h00
    /\ ~channel3.enabled_flag /\ ~channel3.enabled
    /\ channel3.current_wave > 0

\* C11: master off then on.  From any reachable state, whatever channel 1
\* was doing before, once NR52 has been written with bit 7 clear and then
\* with bit 7 set, channel 1 is silent until an NR14 write triggers it: at
\* the write that switches the master back on, channel 1 does not report
\* on() and holds no amplitude.
C11_MasterOffOnSilent ==
    [][(op'.kind = "wb" /\ op'.a = \hFF26 /\ ~on /\ on') =>
          /\ ~SquareChannel_on(channel1')
          /\ channel1'.last_amp = 0]_vars

\* the positions of steplog at which a tick is completed
TickAt == {p \in 1..Len(steplog) : steplog[p].ev = "tick"}

\* how many of the steps at positions lo..hi of steplog are of kind name
CountSteps(name, lo, hi) ==
    Cardinality({i \in lo..hi : steplog[i].ev = name})

\* C12: frame-sequencer sub-rates.  Every tick consists of, in this order:
\* a run of the four channels from prev_time up to the tick time, the step
\* of the four length counters, then the envelope steps exactly when
\* time_divider == 0 and the sweep step exactly when time_divider is odd;
\* time_divider advances by one modulo 4 per tick, so every 4 consecutive
\* ticks contain 4 length steps, 1 envelope step and 2 sweep steps.
C12_SubRates ==
    /\ Cardinality(TickAt) = Len(ticklog)
    /\ \A p \in TickAt :
          LET d == steplog[p].divider
              k == IF d = 2 THEN 2 ELSE 3
          IN  /\ d = (time_divider + 4 * Len(ticklog)
                         - Cardinality({q \in TickAt : q >= p})) % 4
              /\ p - k >= 1
              /\ steplog[p - k].ev = "run"
              /\ steplog[p - k].to = steplog[p].next
              /\ steplog[p - k + 1].ev = "length"
              /\ d = 0 => steplog[p - 1].ev = "envelope"
              /\ d % 2 = 1 => steplog[p - 1].ev = "sweep"
              /\ p - k > 1 => steplog[p - k - 1].ev = "tick"
              /\ p >= 15 =>
                    /\ CountSteps("tick", p - 14, p) = 4
                    /\ CountSteps("run", p - 14, p) = 4
                    /\ CountSteps("length", p - 14, p) = 4
                    /\ CountSteps("envelope", p - 14, p) = 1
                    /\ CountSteps("sweep", p - 14, p) = 2
    /\ \A i \in 1..Len(steplog) :
          /\ steplog[i].ev = "length" =>
                i > 1 /\ steplog[i - 1].ev = "run"
          /\ steplog[i].ev = "envelope" =>
                /\ steplog[i].divider = 0
                /\ i > 1 /\ steplog[i - 1].ev = "length"
                /\ i < Len(steplog) /\ steplog[i + 1].ev = "tick"
          /\ steplog[i].ev = "sweep" =>
                /\ steplog[i].divider % 2 = 1
                /\ i > 1 /\ steplog[i - 1].ev = "length"
                /\ i < Len(steplog) /\ steplog[i + 1].ev = "tick"

\* a read has drained eight pending ticks, two for each value of the divider
C12_Witness ==
    /\ op.kind = "rb"
    /\ Len(ticklog) = 8
    /\ CountSteps("envelope", 1, Len(steplog)) = 2
    /\ CountSteps("sweep", 1, Len(steplog)) = 4
    /\ steplog[Len(steplog)].ev = "tick"

\* C13: absolute tick schedule.  Counting the cycles that do_cycle has
\* accumulated while the APU was on, over all output frames, the n-th tick
\* of the frame sequencer (n >= 1) is applied at absolute time n * 16384,
\* however the cycles are chunked into do_cycle calls, wherever reads and
\* writes come in between and wherever the output frames end; so the next
\* tick is always due at (nticks + 1) * 16384, and once a read or an
\* accepted write has drained the pending ticks, abstime / 16384 ticks
\* have been applied.
C13_TickSchedule ==
    /\ \A p \in TickAt :
          steplog[p].abs = (steplog[p].n + 1) * TickPeriod
    /\ abstime - time + next_time = (nticks + 1) * TickPeriod
    /\ (op.kind = "rb" \/ (op.kind = "wb" /\ op.accepted)) =>
          nticks = abstime \div TickPeriod

\* a tick in the second output frame, which began between two ticks, is
\* applied by a read
C13_Witness ==
    /\ op.kind = "rb"
    /\ \E p \in TickAt :
          /\ steplog[p].n >= 13
          /\ steplog[p].abs > steplog[p].next
          /\ (steplog[p].abs - steplog[p].next) % TickPeriod # 0

\* C14: time-cursor invariant.  In every reachable state, and at every
\* step the sequencer takes, prev_time <= time and
\* prev_time < next_time <= prev_time + 16384.  So at every frame end the
\* assertion time == prev_time holds after run, next_time - time does not
\* underflow and leaves next_time >= 1, and every run(start, end) of a
\* channel has start < end.
C14_TimeCursor ==
    /\ prev_time <= time
    /\ prev_time < next_time
    /\ next_time <= prev_time + TickPeriod
    /\ next_time >= 1
    /\ \A i \in 1..Len(steplog) :
          /\ steplog[i].prev <= steplog[i].time
          /\ steplog[i].prev < steplog[i].next
          /\ steplog[i].next <= steplog[i].prev + TickPeriod
          /\ steplog[i].ev = "end_frame" =>
                /\ steplog[i].time = steplog[i].prev
                /\ steplog[i].next - steplog[i].time >= 1
          /\ steplog[i].ev = "run" => steplog[i].prev < steplog[i].to
    /\ \A c \in Channels :
          \A i \in 1..Len(runlog[c]) : runlog[c][i].start < runlog[c][i].end

\* an output frame ends between two ticks, after ticks have been applied
\* and the channels have been advanced from the last tick up to time
C14_Witness ==
    /\ op.kind = "do_cycle"
    /\ Len(ticklog) >= 1
    /\ \E i \in 2..Len(steplog) :
          /\ steplog[i].ev = "end_frame"
          /\ steplog[i].time % TickPeriod # 0
          /\ steplog[i - 1].ev = "run"
          /\ steplog[i - 1].to = steplog[i].time
    /\ time = 0 /\ next_time < TickPeriod

\* C15: noise LFSR period.  After an NR44 trigger with shift_width == 14
\* (state reloaded to 0xFF) and no further write, the LFSR state is never 0
\* and the output bits of the shifts (bit 14 of the state before the shift,
\* which selects +vol or -vol) have least period 32767: the low 15 bits of
\* the state are back at their initial value after n shifts exactly when n
\* is a multiple of 32767, and the latest 15 output bits equal the first
\* 15 output bits (0x00FF) exactly when a multiple of 32767 shifts lie in
\* between.
C15_LfsrPeriod ==
    (focus = 4 /\ lastw[4].trigger /\ channel4.shift_width = 14) =>
        /\ channel4.state # 0
        /\ (channel4.state % 32768 = \hFF) <=> (shifts.n % 32767 = 0)
        /\ shifts.n >= 15 =>
              ((shifts.win = \hFF) <=> ((shifts.n - 15) % 32767 = 0))
        /\ shifts.n >= 1 =>
              channel4.last_amp = IF shifts.win % 2 = 1
                                  THEN channel4.volume_envelope.volume
                                  ELSE -channel4.volume_envelope.volume

\* the first 15 output bits have come round again after 32767 more shifts
C15_Witness ==
    /\ focus = 4 /\ lastw[4].trigger /\ channel4.shift_width = 14
    /\ shifts.n = 32767 + 15
    /\ shifts.win = \hFF
    /\ channel4.volume_envelope.volume = 15

\* the sum over the channels i in 0..3 whose pan bit i + first is set of
\* sample j of channel i, scaled by vol
PanSum(first, vol, j) ==
    LET pan == registerdata[\hFF25 - \hFF10]
        term(i) == IF (pan \div (2 ^ (i + first))) % 2 = 1
                   THEN mix.bufs[i + 1][j] * vol ELSE 0
    IN  term(0) + term(1) + term(2) + term(3)

\* C16: stereo pan.  At every mix, for each channel i in 0..3 and each
\* output sample, the channel's sample is added, scaled by the left master
\* volume, to the left output iff bit i of the pan register 0xFF25 is set,
\* and, scaled by the right master volume, to the right output iff bit
\* i + 4 is set; with NR51 == 0x01 every right output sample is zero.
C16_StereoPan ==
    mix.done =>
        /\ Len(mix.left) = Len(mix.bufs[1])
        /\ Len(mix.right) = Len(mix.bufs[1])
        /\ \A j \in 1..Len(mix.bufs[1]) :
              /\ mix.left[j] = PanSum(0, volume_left, j)
              /\ mix.right[j] = PanSum(4, volume_right, j)
              /\ registerdata[\hFF25 - \hFF10] = 1 => mix.right[j] = 0

\* a frame has been mixed with NR51 == 0x01 and left volume 5: the left
\* output carries channel 1 alone and the right output is zero
C16_Witness ==
    /\ mix.done
    /\ registerdata[\hFF25 - \hFF10] = 1
    /\ volume_left = 5 /\ volume_right = 3
    /\ mix.left = <<5 * mix.bufs[1][1], 5 * mix.bufs[1][2]>>
    /\ mix.left[1] # 0
    /\ mix.right = <<0, 0>>

\* bytes with every combination of the top two bits, the low three bits
\* and the low six bits all clear or all set
ByteSamples == {\h00, \h07, \h3F, \h40, \h47, \h80, \hBF, \hC0, \hF8, \hFF}

\* C17: length ranges.  In every reachable state the length and new_length
\* of both square channels and of the noise channel lie in 0..63, and the
\* length and new_length of the wave channel lie in 0..255, for every byte
\* written to NR11/NR21/NR41/NR31 and every trigger or NR13/NR23 reload.
C17_LengthRanges ==
    /\ channel1.length \in 0..63 /\ channel1.new_length \in 0..63
    /\ channel2.length \in 0..63 /\ channel2.new_length \in 0..63
    /\ channel4.length \in 0..63 /\ channel4.new_length \in 0..63
    /\ channel3.length \in 0..255 /\ channel3.new_length \in 0..255

\* C17 as amended: the length and new_length of both square channels and
\* of the noise channel lie in 0..64 and those of the wave channel in
\* 0..256, in every reachable state and after a write of a byte
\* (of ByteSamples) to NR11/NR21/NR41/NR31 in that state.
C17_LengthRangesAmended ==
    /\ channel1.length \in 0..64 /\ channel1.new_length \in 0..64
    /\ channel2.length \in 0..64 /\ channel2.new_length \in 0..64
    /\ channel4.length \in 0..64 /\ channel4.new_length \in 0..64
    /\ channel3.length \in 0..256 /\ channel3.new_length \in 0..256
    /\ \A v \in ByteSamples :
          /\ SquareChannel_wb(channel1, \hFF11, v).new_length \in 1..64
          /\ SquareChannel_wb(channel2, \hFF16, v).new_length \in 1..64
          /\ NoiseChannel_wb(channel4, \hFF20, v).new_length \in 1..64
          /\ WaveChannel_wb(channel3, \hFF1B, v).new_length \in 1..256

\* the length of channel 1, loaded with 64 by NR11 = 0x80 and a trigger,
\* has been stepped down once
C17_Witness ==
    /\ focus = 1
    /\ channel1.new_length = 64
    /\ channel1.length = 63
    /\ channel1.length_enabled
    /\ lastw[1].trigger /\ lastw[1].length = 64

\* C18: wave volume shift range.  After an accepted write of any byte v to
\* NR32 (0xFF1C) volume_shift lies in {0,1,2,3}; hence in every reachable
\* state volume_shift is in 0..3 (and the wave amplitude is 0 only for
\* shift 0).
C18_VolumeShiftRange ==
    channel3.volume_shift \in 0..3

\* C19: frequency bound.  In every reachable state the frequency and the
\* sweep_frequency of each square channel are at most 2048 and the frequency
\* of the wave channel is at most 2047; a channel's period is 0 only when
\* its frequency equals 2048, and that arises only from a sweep overflow on
\* channel 1; a write of a byte (of ByteSamples) to a frequency register
\* leaves the frequency at most 2047.
C19_FrequencyBound ==
    /\ channel1.frequency <= 2048 /\ channel1.sweep_frequency <= 2048
    /\ channel2.frequency <= 2048 /\ channel2.sweep_frequency <= 2048
    /\ channel3.frequency <= 2047
    /\ channel1.period = 0 => channel1.frequency = 2048
    /\ channel2.period = 0 => channel2.frequency = 2048
    /\ channel3.period = 0 => channel3.frequency = 2048
    /\ channel4.period # 0
    /\ channel1.frequency = 2048 => swept
    /\ channel2.frequency # 2048
    /\ channel3.frequency # 2048
    /\ \A v \in ByteSamples :
          /\ SquareChannel_wb(channel1, \hFF13, v).frequency <= 2047
          /\ SquareChannel_wb(channel1, \hFF14, v).frequency <= 2048
          /\ SquareChannel_wb(channel1, \hFF14, v).sweep_frequency <= 2048
          /\ SquareChannel_wb(channel2, \hFF18, v).frequency <= 2047
          /\ SquareChannel_wb(channel2, \hFF19, v).frequency <= 2047
          /\ WaveChannel_wb(channel3, \hFF1D, v).frequency <= 2047
          /\ WaveChannel_wb(channel3, \hFF1E, v).frequency <= 2047
          /\ NoiseChannel_wb(channel4, \hFF22, v).period >= 8

\* the sweep of channel 1 has overflowed and a later sweep step has taken
\* the frequency to 2048 and the period to 0
C19_Witness ==
    /\ swept
    /\ channel1.frequency = 2048
    /\ channel1.sweep_frequency = 2048
    /\ channel1.period = 0
    /\ written[\hFF13] = \hC0

\* run(start_time, end_time) of channel c, applied to the channel state ch
RunOf(c, ch, start_time, end_time) ==
    CASE c \in {1, 2} -> SquareChannel_run(ch, start_time, end_time)
      [] c = 3 -> WaveChannel_run(ch, start_time, end_time)
      [] c = 4 -> NoiseChannel_run(ch, start_time, end_time)

\* the split points tried: <<m - s, e - s>> with s < m < e
ChunkOffsets == { <<3, 16384>>, <<700, 6000>>, <<1024, 16384>> }

\* run(s, m) followed by run(m, e), against run(s, e)
ChunkFirst(c, ch, s, d) == RunOf(c, ch, s, s + d[1])

ChunkSecond(c, ch, s, d) ==
    RunOf(c, ChunkFirst(c, ch, s, d).ch, s + d[1], s + d[2])

ChunkWhole(c, ch, s, d) == RunOf(c, ch, s, s + d[2])

\* the two calls leave the same channel state and emit the same events
\* as the single call
ChunkEq(c, ch, s, d) ==
    /\ ChunkSecond(c, ch, s, d).ch = ChunkWhole(c, ch, s, d).ch
    /\ ChunkFirst(c, ch, s, d).deltas \o ChunkSecond(c, ch, s, d).deltas
          = ChunkWhole(c, ch, s, d).deltas

\* C20: chunking independence of channel advance.  For each of the three
\* channel types, every reachable channel state and times s < m < e,
\* run(s, m) followed by run(m, e) leaves the channel in exactly the same
\* state as the single call run(s, e) and emits exactly the same sequence
\* of (time, delta) events.  The channel states tried are those the CPU
\* program reaches and those a further run into the middle of a period
\* leaves behind (with a delay carried over).
C20_ChunkingIndependence ==
    \A c \in Channels :
        c = focus =>
            \A d \in ChunkOffsets :
                /\ ChunkEq(c, ChannelRecord(Self, c), prev_time, d)
                /\ ChunkEq(c, ChunkFirst(c, ChannelRecord(Self, c),
                                         prev_time, d).ch,
                           prev_time + d[1], <<300, 5000>>)

\* a sounding channel is split inside a period: the first call emits, carries
\* a delay over, and the second call emits as well
C20_Witness ==
    \E c \in Channels :
        /\ c = focus
        /\ ChannelOn(c)
        /\ ChunkFirst(c, ChannelRecord(Self, c), prev_time, <<700, 6000>>).deltas
               # << >>
        /\ ChunkFirst(c, ChannelRecord(Self, c), prev_time, <<700, 6000>>).ch.delay
               > 0
        /\ ChunkSecond(c, ChannelRecord(Self, c), prev_time, <<700, 6000>>).deltas
               # << >>

---------------------------------------------------------------------------
\* whole sequencer periods in a u32 span: x / (CLOCKS_PER_SECOND / 256)
U32_div_ticks(x) == x.hi * 4 + x.lo \div TickPeriod

\* how many iterations bring next_time past time when next_time only
\* ever moves forward from where it stood at the loop's entry
LoopBound ==
    IF U32_le(call.entry, time)
    THEN U32_div_ticks(U32_sub(time, call.entry)) + 1
    ELSE 0

\* C21: termination of the sequencer loop.  For every value of time the
\* while loop of Sound::run is left: it never aborts the call, and it
\* never makes more iterations than it takes to move next_time, one
\* sequencer period at a time, from its value at entry past time.
C21_SequencerTerminates ==
    /\ ~(call.pc = "panic" /\ call.from = "run")
    /\ call.pc = "while" => call.iters <= LoopBound

\* C21: termination of channel advance.  The period a stepping loop adds
\* to its cursor is never negative, it is 0 only where the square and wave
\* channels take the silent branch, and the noise period, whatever byte is
\* written to NR43, is at least 8.
C21_ChannelPeriods ==
    /\ channel1.period \in 0..8192
    /\ channel2.period \in 0..8192
    /\ channel3.period \in 0..4096
    /\ channel1.period = 0 <=> channel1.frequency >= 2048
    /\ channel4.period >= 8
    /\ \A v \in 0..255 : NoiseChannel_wb(channel4, \hFF22, v).period >= 8

\* a loop of Sound::run that was left after iterations at full width
C21_Witness ==
    /\ call.pc = "idle"
    /\ call.calls = 1
    /\ nticks = 262140
    /\ time = U32_of(0)

---------------------------------------------------------------------------
\* C22: delta accounting.  For each channel, in every reachable state the
\* sum of all deltas the channel has ever emitted equals its current
\* last_amp; that value lies in -15..15 for the square and noise channels
\* and in 0..15 for the wave channel; and no emitted delta is 0.
C22_DeltaAccounting ==
    /\ \A c \in Channels :
          /\ emitted[c].sum = ChannelRecord(Self, c).last_amp
          /\ ~emitted[c].zero
    /\ \A c \in {1, 2, 4} : ChannelRecord(Self, c).last_amp \in -15..15
    /\ channel3.last_amp \in 0..15

\* the channel made sound and the last call flushed what was left of it
C22_Witness ==
    \E c \in Channels :
        /\ c = focus
        /\ ChannelRecord(Self, c).last_amp = 0
        /\ \E i \in 1..Len(runlog[c]) :
              /\ runlog[c][i].silent
              /\ runlog[c][i].deltas # << >>
              /\ runlog[c][i].amp0 # 0

---------------------------------------------------------------------------
\* the last call was an accepted write with bit 7 set to NR14, NR24 or
\* NR44, or to NR34 while the wave DAC is enabled
Triggered ==
    /\ op.kind = "wb"
    /\ op.accepted
    /\ Bit(op.v, 7) = 1
    /\ \/ op.a \in {\hFF14, \hFF19, \hFF23}
       \/ op.a = \hFF1E /\ channel3.enabled_flag

\* C23: trigger makes a channel audible.  Immediately after an accepted
\* write with bit 7 set to NR14, NR24 or NR44, or to NR34 while the wave
\* DAC is enabled, the triggered channel reports on(): its status bit in
\* the byte rb(0xFF26) returns is set.
C23_TriggerAudible ==
    Triggered =>
        /\ ChannelOn(ChannelOf(op.a))
        /\ Bit(Sound_rb_value(Sound_run(Self), \hFF26), ChannelOf(op.a) - 1) = 1

\* a triggering write whose channel does report on()
C23_Witness ==
    /\ Triggered
    /\ ChannelOf(op.a) = focus
    /\ ChannelRecord(Self, focus).length_enabled
    /\ Bit(Sound_rb_value(Sound_run(Self), \hFF26), ChannelOf(op.a) - 1) = 1

=============================================================================
